---- MODULE Spec2Model ----
(***************************************************************************)
(* Helpdesk-AI: the ingestion pipeline of utils.ts (parseCustomDate,       *)
(* parseRawData), the upload that feeds it (DataUpload.processFile), and   *)
(* the time-window filter and the statistics of the dashboard              *)
(* (filterTickets, getPreviousPeriodTickets, Dashboard), the per-agent     *)
(* rollup (calculateAgentMetrics), and the page itself (App, DataUpload,   *)
(* InsightsPanel): start-up from local storage, uploads, range changes,    *)
(* insight generation, with their timers and calls in flight.              *)
(*                                                                         *)
(* Representation.                                                         *)
(*   - A JavaScript string is a sequence of one-character strings.         *)
(*   - A JavaScript value (a spreadsheet cell, an element of a parsed      *)
(*     array) is a record [k, s, n, a]: k is its kind ("undef", "null",    *)
(*     "str", "num", "date", "arr"), s its characters (kind "str"), n its  *)
(*     number (kind "num": an integer; kind "date": the time value, or     *)
(*     NaN), a its elements (kind "arr").                                  *)
(*   - A time value is in SECONDS since the epoch (getTime() / 1000); no   *)
(*     input of the model carries milliseconds.  NaN is the value NaN      *)
(*     below; an Invalid Date is a date whose time value is NaN.           *)
(*   - The host's time zone (hours east of UTC, no daylight saving) and    *)
(*     the host's Date.parse dialect are part of the state: both are       *)
(*     outside the program and fixed for a run.                            *)
(***************************************************************************)
EXTENDS Integers, Sequences, FiniteSets, TLC

VARIABLES
  tz,       \* the host's time zone, hours east of UTC
  engine,   \* the host's Date.parse dialect
  pc,       \* "idle": nothing parsed; "parsed": parseRawData has returned or thrown
  data,     \* the rows handed to parseRawData
  tickets,  \* the tickets it returned
  error,    \* whether it threw
  rawData,      \* the file handed to processFile, as XLSX reads it
  uploadError,  \* the error state of DataUpload ("" for null)
  loaded,       \* whether onDataLoaded was called
  appTickets,   \* the tickets state of App
  timeRange,    \* the timeRange state of App
  clock,        \* the clock reading of the render (new Date())
  filteredTickets,        \* filterTickets(tickets, timeRange)
  previousPeriodTickets,  \* getPreviousPeriodTickets(tickets, timeRange)
  stats,                  \* the statistics and trends Dashboard shows
  rollupTickets,   \* the tickets handed to calculateAgentMetrics
  filteredAgents,  \* the list it returned
  started,        \* whether the effect of App that calls loadData has run
  isLoading,      \* the isLoading state of App
  view,           \* the view state of App
  dbTickets,      \* the item 'helpdesk_db_tickets' of local storage
  saved,          \* the tickets handed to the last setItem that stored them (history)
  insightsCache,  \* the item 'helpdesk_insights_cache' of local storage
  timers,         \* the pending setTimeout callbacks of App, by origin
  jobs,           \* the processFile calls in flight
  uploadLoading,  \* the loading state of DataUpload
  insight,        \* the insight state of InsightsPanel
  panelLoading,   \* the loading state of InsightsPanel
  requests,       \* the getAIInsights calls in flight
  dataVersion,    \* how often handleDataLoaded has replaced the tickets (history)
  budget          \* the user actions left to the run

uploadVars == <<rawData, uploadError, loaded>>

viewVars == <<appTickets, timeRange, clock, filteredTickets, previousPeriodTickets, stats>>

agentVars == <<rollupTickets, filteredAgents>>

appVars ==
  <<started, isLoading, view, dbTickets, saved, insightsCache, timers, jobs, uploadLoading,
    insight, panelLoading, requests, dataVersion, budget>>

vars == <<tz, engine, pc, data, tickets, error, uploadVars, viewVars, agentVars, appVars>>

\* ------------------------------------------------------------------ strings

Digits == <<"0", "1", "2", "3", "4", "5", "6", "7", "8", "9">>

UpperCase == <<"A", "B", "C", "D", "E", "F", "G", "H", "I", "J", "K", "L", "M",
               "N", "O", "P", "Q", "R", "S", "T", "U", "V", "W", "X", "Y", "Z">>

LowerCase == <<"a", "b", "c", "d", "e", "f", "g", "h", "i", "j", "k", "l", "m",
               "n", "o", "p", "q", "r", "s", "t", "u", "v", "w", "x", "y", "z">>

IsDigit(c) == \E i \in 1..10 : Digits[i] = c

DigitVal(c) == (CHOOSE i \in 1..10 : Digits[i] = c) - 1

\* String.prototype.toLowerCase, one character
LowerChar(c) ==
  IF \E i \in 1..26 : UpperCase[i] = c
  THEN LowerCase[CHOOSE i \in 1..26 : UpperCase[i] = c]
  ELSE c

\* String.prototype.toLowerCase
ToLowerCase(s) == [i \in 1..Len(s) |-> LowerChar(s[i])]

\* String.prototype.trim (the only white space of the model is " ")
RECURSIVE TrimStart(_)
TrimStart(s) == IF s # <<>> /\ Head(s) = " " THEN TrimStart(Tail(s)) ELSE s

RECURSIVE TrimEnd(_)
TrimEnd(s) ==
  IF s # <<>> /\ s[Len(s)] = " " THEN TrimEnd(SubSeq(s, 1, Len(s) - 1)) ELSE s

Trim(s) == TrimEnd(TrimStart(s))

\* String.prototype.replace(/c/g, d) for a one-character pattern
ReplaceAll(s, c, d) == [i \in 1..Len(s) |-> IF s[i] = c THEN d ELSE s[i]]

\* String.prototype.split(c) for a one-character separator
RECURSIVE SplitFrom(_, _, _)
SplitFrom(s, c, cur) ==
  IF s = <<>> THEN <<cur>>
  ELSE IF Head(s) = c THEN <<cur>> \o SplitFrom(Tail(s), c, <<>>)
  ELSE SplitFrom(Tail(s), c, Append(cur, Head(s)))

Split(s, c) == SplitFrom(s, c, <<>>)

\* String.prototype.includes(c)
Includes(s, c) == \E i \in 1..Len(s) : s[i] = c

\* ------------------------------------------------------------------ numbers

\* The value NaN: outside every range a time value or a parsed number takes.
NaN == -2147483647

IsNaN(x) == x = NaN

\* the value of a run of decimal digits
RECURSIVE DigitsValue(_, _)
DigitsValue(s, acc) ==
  IF s = <<>> \/ ~IsDigit(Head(s)) THEN acc
  ELSE DigitsValue(Tail(s), acc * 10 + DigitVal(Head(s)))

\* parseInt(s): leading white space, an optional sign, the longest run of
\* digits; NaN when there is no digit.
ParseInt(s) ==
  LET t == TrimStart(s)
      neg == t # <<>> /\ Head(t) = "-"
      u == IF t # <<>> /\ Head(t) \in {"-", "+"} THEN Tail(t) ELSE t
  IN IF u = <<>> \/ ~IsDigit(Head(u)) THEN NaN
     ELSE IF neg THEN 0 - DigitsValue(u, 0) ELSE DigitsValue(u, 0)

\* String(n) of an integer
RECURSIVE NatToString(_)
NatToString(n) ==
  IF n < 10 THEN <<Digits[n + 1]>>
  ELSE Append(NatToString(n \div 10), Digits[(n % 10) + 1])

IntToString(n) == IF n < 0 THEN <<"-">> \o NatToString(0 - n) ELSE NatToString(n)

\* ------------------------------------------------------------------ calendar

SecondsPerDay == 24 * 60 * 60

\* floor(a / b) and a mod b for b > 0 and any a
FloorDiv(a, b) == IF a >= 0 THEN a \div b ELSE 0 - ((b - 1 - a) \div b)

FloorMod(a, b) == a - b * FloorDiv(a, b)

\* Days from 1970-01-01 to day d of month m (1..12) of year y
DaysFromCivil(y, m, d) ==
  LET yy == IF m <= 2 THEN y - 1 ELSE y
      era == FloorDiv(yy, 400)
      yoe == yy - era * 400
      mp == IF m > 2 THEN m - 3 ELSE m + 9
      doy == (153 * mp + 2) \div 5 + d - 1
      doe == yoe * 365 + yoe \div 4 - yoe \div 100 + doy
  IN era * 146097 + doe - 719468

\* MakeDay of ECMAScript: month0 is zero-based and may lie outside 0..11, the
\* day may lie outside the month; both carry over.
MakeDay(year, month0, day) ==
  DaysFromCivil(year + FloorDiv(month0, 12), FloorMod(month0, 12) + 1, 1) + (day - 1)

\* Date.UTC(year, month0, day, h, mi, s) in seconds
UtcTime(year, month0, day, h, mi, s) ==
  MakeDay(year, month0, day) * SecondsPerDay + h * 3600 + mi * 60 + s

\* the number of days of the month month0 (zero-based) of year y
DaysInMonth(y, month0) == MakeDay(y, month0 + 1, 1) - MakeDay(y, month0, 1)

\* ------------------------------------------------------------------ values

Undef == [k |-> "undef", s |-> <<>>, n |-> 0, a |-> <<>>]

Null == [k |-> "null", s |-> <<>>, n |-> 0, a |-> <<>>]

MkStr(s) == [k |-> "str", s |-> s, n |-> 0, a |-> <<>>]

MkNum(n) == [k |-> "num", s |-> <<>>, n |-> n, a |-> <<>>]

MkDate(t) == [k |-> "date", s |-> <<>>, n |-> t, a |-> <<>>]

MkArr(a) == [k |-> "arr", s |-> <<>>, n |-> 0, a |-> a]

\* new Date(0): the "1970" fallback of parseCustomDate
Sentinel == MkDate(0)

InvalidDate == MkDate(NaN)

\* ToBoolean(v): undefined, null, "", 0 and NaN are falsy; objects are truthy
Truthy(v) ==
  CASE v.k = "undef" -> FALSE
    [] v.k = "null" -> FALSE
    [] v.k = "str" -> v.s # <<>>
    [] v.k = "num" -> v.n # 0 /\ ~IsNaN(v.n)
    [] OTHER -> TRUE

\* Array.prototype.join(",") over already converted elements
RECURSIVE JoinComma(_)
JoinComma(ss) ==
  IF ss = <<>> THEN <<>>
  ELSE IF Len(ss) = 1 THEN ss[1]
  ELSE ss[1] \o <<",">> \o JoinComma(Tail(ss))

\* String(v).  A date prints as a text that is never empty, never "null" and
\* has no "[", "]" or ","; the model keeps one such text for all dates.
RECURSIVE ToStr(_)
ToStr(v) ==
  CASE v.k = "undef" -> <<"u", "n", "d", "e", "f", "i", "n", "e", "d">>
    [] v.k = "null" -> <<"n", "u", "l", "l">>
    [] v.k = "str" -> v.s
    [] v.k = "num" -> IF IsNaN(v.n) THEN <<"N", "a", "N">> ELSE IntToString(v.n)
    [] v.k = "date" -> <<"D", "a", "t", "e">>
    [] OTHER ->
         JoinComma([i \in 1..Len(v.a) |->
                      IF v.a[i].k \in {"undef", "null"} THEN <<>> ELSE ToStr(v.a[i])])

\* ------------------------------------------------------------------ Date

TimeZones == {-5, 0, 5}

Engines == {"iso-only", "legacy"}

AllDigits(s) == s # <<>> /\ \A i \in 1..Len(s) : IsDigit(s[i])

\* new Date(year, month0, day, h, mi, s): local time; a NaN argument gives an
\* Invalid Date; a year of 0..99 means 1900 + year.
DateCtor(year, month0, day, h, mi, s) ==
  IF \E x \in {year, month0, day, h, mi, s} : IsNaN(x) THEN InvalidDate
  ELSE LET y == IF year >= 0 /\ year <= 99 THEN 1900 + year ELSE year
       IN MkDate(UtcTime(y, month0, day, h, mi, s) - tz * 3600)

\* "HH:mm" or "HH:mm:ss" as seconds of the day, NaN when it is not one
TimeOfDay(s) ==
  LET p == Split(s, ":")
  IN IF Len(p) \in {2, 3} /\ \A i \in 1..Len(p) : AllDigits(p[i]) /\ Len(p[i]) <= 2
     THEN LET h == DigitsValue(p[1], 0)
              mi == DigitsValue(p[2], 0)
              se == IF Len(p) = 3 THEN DigitsValue(p[3], 0) ELSE 0
          IN IF h <= 23 /\ mi <= 59 /\ se <= 59 THEN h * 3600 + mi * 60 + se ELSE NaN
     ELSE NaN

\* The date-time string format of ECMAScript, the part every engine shares:
\* "YYYY", "YYYY-MM-DD" (UTC) and "YYYY-MM-DDTHH:mm[:ss]" (local time).
IsoParse(s) ==
  LET dpart == IF Includes(s, "T") THEN Split(s, "T")[1] ELSE s
      tpart == IF Includes(s, "T") THEN Split(s, "T")[2] ELSE <<>>
      p == Split(dpart, "-")
      shape == /\ Len(p) \in {1, 3}
               /\ \A i \in 1..Len(p) : AllDigits(p[i])
               /\ Len(p[1]) = 4
               /\ Len(p) = 3 => Len(p[2]) = 2 /\ Len(p[3]) = 2
               /\ Includes(s, "T") => Len(p) = 3 /\ Len(Split(s, "T")) = 2
  IN IF ~shape THEN NaN
     ELSE LET y == DigitsValue(p[1], 0)
              m == IF Len(p) = 3 THEN DigitsValue(p[2], 0) ELSE 1
              d == IF Len(p) = 3 THEN DigitsValue(p[3], 0) ELSE 1
              tod == IF Includes(s, "T") THEN TimeOfDay(tpart) ELSE 0
          IN IF m < 1 \/ m > 12 \/ d < 1 \/ IsNaN(tod) THEN NaN
             ELSE IF d > DaysInMonth(y, m - 1)
               THEN (IF engine = "legacy" /\ d <= 31
                     THEN UtcTime(y, m - 1, d, 0, 0, 0) + tod
                          - (IF Includes(s, "T") THEN tz * 3600 ELSE 0)
                     ELSE NaN)
             ELSE UtcTime(y, m - 1, d, 0, 0, 0) + tod
                  - (IF Includes(s, "T") THEN tz * 3600 ELSE 0)

\* The fallback of a lenient engine (V8's legacy date parser) for three
\* numbers separated by "-", "/" or ".", with an optional " HH:mm[:ss]": the
\* first number is the year when it is no day of a month (not 1..31), else
\* the numbers are month, day, year; a year of 0..49 means 2000 + year, of
\* 50..99 1900 + year; local time.
LegacyParse(s) ==
  LET w == Split(s, " ")
      c == ReplaceAll(ReplaceAll(w[1], ".", "-"), "/", "-")
      p == Split(c, "-")
      tod == IF Len(w) = 2 THEN TimeOfDay(w[2]) ELSE 0
  IN IF Len(w) > 2 \/ Len(p) # 3 \/ (\E i \in 1..3 : ~AllDigits(p[i])) \/ IsNaN(tod)
     THEN NaN
     ELSE LET n1 == DigitsValue(p[1], 0)
              n2 == DigitsValue(p[2], 0)
              n3 == DigitsValue(p[3], 0)
              ymd == n1 < 1 \/ n1 > 31
              y0 == IF ymd THEN n1 ELSE n3
              m == IF ymd THEN n2 ELSE n1
              d == IF ymd THEN n3 ELSE n2
              y == IF y0 <= 49 THEN 2000 + y0 ELSE IF y0 <= 99 THEN 1900 + y0 ELSE y0
          IN IF m < 1 \/ m > 12 \/ d < 1 \/ d > 31 THEN NaN
             ELSE UtcTime(y, m - 1, d, 0, 0, 0) + tod - tz * 3600

\* new Date(dateStr).getTime(): Date.parse.  Outside the ECMAScript format the
\* result is implementation-defined: an "iso-only" host rejects the string, a
\* "legacy" host applies its fallback.
DateParse(s) ==
  LET iso == IsoParse(s)
  IN IF ~IsNaN(iso) THEN iso
     ELSE IF engine = "legacy" THEN LegacyParse(s)
     ELSE NaN

\* ------------------------------------------------------------------ parseCustomDate

sNull == <<"n", "u", "l", "l">>

\* the three parts read month first when the first has not four characters
DateFieldsMonthFirst(parts) ==
  IF Len(parts[1]) = 4
  THEN [year |-> ParseInt(parts[1]), month |-> ParseInt(parts[2]), day |-> ParseInt(parts[3])]
  ELSE [month |-> ParseInt(parts[1]), day |-> ParseInt(parts[2]), year |-> ParseInt(parts[3])]

\* lines 88-100: year, month and day of the three parts
DateFields(parts) ==
  IF Len(parts[1]) = 4
  THEN [year |-> ParseInt(parts[1]), month |-> ParseInt(parts[2]), day |-> ParseInt(parts[3])]
  ELSE [day |-> ParseInt(parts[1]), month |-> ParseInt(parts[2]), year |-> ParseInt(parts[3])]

\* the "Manual parsers" block of parseCustomDate (the try body)
ManualParse(dateStr) ==
  LET cleanDateStr == ReplaceAll(ReplaceAll(dateStr, ".", "-"), "/", "-")
      w == Split(cleanDateStr, " ")
      d == w[1]
      t == IF Len(w) >= 2 THEN w[2] ELSE <<>>
      parts == Split(d, "-")
  IN IF Len(parts) = 3
     THEN LET year == DateFields(parts).year
              month == DateFields(parts).month
              day == DateFields(parts).day
              month0 == IF IsNaN(month) THEN NaN ELSE month - 1
          IN IF t # <<>>
             THEN LET hms == Split(t, ":")
                      Part(i) == IF Len(hms) >= i /\ hms[i] # <<>> THEN hms[i] ELSE <<"0">>
                  IN DateCtor(year, month0, day,
                              ParseInt(Part(1)), ParseInt(Part(2)), ParseInt(Part(3)))
             ELSE DateCtor(year, month0, day, 0, 0, 0)
     ELSE Sentinel

parseCustomDate(input) ==
  IF ~Truthy(input) \/ input = MkStr(<<"-">>) THEN Sentinel
  ELSE IF input.k = "date" THEN (IF IsNaN(input.n) THEN Sentinel ELSE input)
  ELSE LET dateStr == ToStr(input)
       IN IF Trim(dateStr) = <<>> \/ ToLowerCase(dateStr) = sNull THEN Sentinel
          ELSE LET date == DateParse(dateStr)
               IN IF ~IsNaN(date) THEN MkDate(date) ELSE ManualParse(dateStr)

\* ------------------------------------------------------------------ JSON.parse

JsonFail == [ok |-> FALSE, v |-> Undef, i |-> 0]

RECURSIVE SkipWs(_, _)
SkipWs(s, i) == IF i <= Len(s) /\ s[i] = " " THEN SkipWs(s, i + 1) ELSE i

\* the index of the first c at or after i, 0 when there is none
RECURSIVE IndexFrom(_, _, _)
IndexFrom(s, c, i) ==
  IF i > Len(s) THEN 0 ELSE IF s[i] = c THEN i ELSE IndexFrom(s, c, i + 1)

RECURSIVE DigitsEnd(_, _)
DigitsEnd(s, i) == IF i <= Len(s) /\ IsDigit(s[i]) THEN DigitsEnd(s, i + 1) ELSE i

\* One JSON value starting at s[i]: a string (the model's texts hold no
\* backslash and no control character, so a string runs to the next quote), an
\* array, an integer, or null.  The texts hold no "{", so there is no object.
RECURSIVE JsonValue(_, _)
RECURSIVE JsonElements(_, _, _)
JsonValue(s, i) ==
  IF i > Len(s) THEN JsonFail
  ELSE IF s[i] = "\"" THEN
    (LET j == IndexFrom(s, "\"", i + 1)
     IN IF j = 0 THEN JsonFail
        ELSE [ok |-> TRUE, v |-> MkStr(SubSeq(s, i + 1, j - 1)), i |-> j + 1])
  ELSE IF s[i] = "[" THEN
    (LET j == SkipWs(s, i + 1)
     IN IF j <= Len(s) /\ s[j] = "]"
        THEN [ok |-> TRUE, v |-> MkArr(<<>>), i |-> j + 1]
        ELSE JsonElements(s, j, <<>>))
  ELSE IF IsDigit(s[i]) THEN
    (LET j == DigitsEnd(s, i)
     IN IF s[i] = "0" /\ j > i + 1 THEN JsonFail
        ELSE [ok |-> TRUE, v |-> MkNum(DigitsValue(SubSeq(s, i, j - 1), 0)), i |-> j])
  ELSE IF i + 3 <= Len(s) /\ SubSeq(s, i, i + 3) = <<"n", "u", "l", "l">>
    THEN [ok |-> TRUE, v |-> Null, i |-> i + 4]
  ELSE JsonFail

JsonElements(s, i, acc) ==
  LET r == JsonValue(s, i)
  IN IF ~r.ok THEN JsonFail
     ELSE LET j == SkipWs(s, r.i)
          IN IF j > Len(s) THEN JsonFail
             ELSE IF s[j] = "," THEN JsonElements(s, SkipWs(s, j + 1), Append(acc, r.v))
             ELSE IF s[j] = "]"
               THEN [ok |-> TRUE, v |-> MkArr(Append(acc, r.v)), i |-> j + 1]
             ELSE JsonFail

\* JSON.parse(s): ok is FALSE where JSON.parse throws a SyntaxError
JsonParse(s) ==
  LET r == JsonValue(s, SkipWs(s, 1))
  IN IF r.ok /\ SkipWs(s, r.i) > Len(s) THEN r ELSE JsonFail

\* ------------------------------------------------------------------ parseFloat

\* parseFloat(s) in TENTHS: leading white space, an optional sign, digits, an
\* optional "." and digits, of which the model's texts carry at most one; NaN
\* when no number starts the text.
ParseFloat(s) ==
  LET t == TrimStart(s)
      neg == t # <<>> /\ Head(t) = "-"
      u == IF t # <<>> /\ Head(t) \in {"-", "+"} THEN Tail(t) ELSE t
      e == DigitsEnd(u, 1)
      whole == DigitsValue(u, 0)
      hasFrac == e + 1 <= Len(u) /\ u[e] = "." /\ IsDigit(u[e + 1])
      frac == IF hasFrac THEN DigitVal(u[e + 1]) ELSE 0
      mag == whole * 10 + frac
  IN IF e = 1 /\ ~hasFrac THEN NaN
     ELSE IF neg THEN 0 - mag ELSE mag

\* ------------------------------------------------------------------ parseRawData

sOpen == <<"O", "p", "e", "n">>

sClosed == <<"C", "l", "o", "s", "e", "d">>

sResolved == <<"r", "e", "s", "o", "l", "v", "e", "d">>

sCompleted == <<"c", "o", "m", "p", "l", "e", "t", "e", "d">>

sVerified == <<"v", "e", "r", "i", "f", "i", "e", "d">>

sNoSubject == <<"N", "o", " ", "S", "u", "b", "j", "e", "c", "t">>

sUnknown == <<"U", "n", "k", "n", "o", "w", "n">>

sMedium == <<"M", "e", "d", "i", "u", "m">>

sUnspecified == <<"U", "n", "s", "p", "e", "c", "i", "f", "i", "e", "d">>

\* the elements of an array, as strings: rawAssign.map(String)
MapString(a) == [i \in 1..Len(a) |-> MkStr(ToStr(a[i]))]

\* lines 122-142: the assignees before they are cleaned, as JavaScript values
RawAssignees(rawAssign) ==
  IF ~Truthy(rawAssign) THEN <<>>
  ELSE IF rawAssign.k = "arr" THEN MapString(rawAssign.a)
  ELSE LET str == Trim(ToStr(rawAssign))
       IN IF str # <<>> /\ Head(str) = "[" /\ str[Len(str)] = "]"
          THEN (LET r == JsonParse(ReplaceAll(str, "'", "\""))
                IN IF r.ok THEN r.v.a ELSE <<MkStr(str)>>)
          ELSE IF Includes(str, ",")
            THEN (LET p == Split(str, ",")
                  IN [i \in 1..Len(p) |-> MkStr(Trim(p[i]))])
          ELSE <<MkStr(str)>>

\* Whether lines 122-145 throw: a SyntaxError of JSON.parse is caught by the
\* try of lines 129-134; assignees.flat() is a TypeError when JSON.parse gave
\* a value that is no array.
AssignThrows(rawAssign) ==
  /\ Truthy(rawAssign)
  /\ rawAssign.k # "arr"
  /\ LET str == Trim(ToStr(rawAssign))
     IN /\ str # <<>> /\ Head(str) = "[" /\ str[Len(str)] = "]"
        /\ LET r == JsonParse(ReplaceAll(str, "'", "\""))
           IN r.ok /\ r.v.k # "arr"

\* Array.prototype.flat(): one level
RECURSIVE Flat(_)
Flat(a) ==
  IF a = <<>> THEN <<>>
  ELSE (IF Head(a).k = "arr" THEN Head(a).a ELSE <<Head(a)>>) \o Flat(Tail(a))

\* a => String(a || '')
StringOrEmpty(v) == IF Truthy(v) THEN ToStr(v) ELSE <<>>

\* a => a.trim() !== ''
KeepAssignee(s) == Trim(s) # <<>>

RECURSIVE FilterKept(_)
FilterKept(ss) ==
  IF ss = <<>> THEN <<>>
  ELSE (IF KeepAssignee(Head(ss)) THEN <<Head(ss)>> ELSE <<>>) \o FilterKept(Tail(ss))

\* line 145: assignees.flat().map(a => String(a || '')).filter(a => a.trim() !== '')
CleanAssignees(a) ==
  LET f == Flat(a)
  IN FilterKept([i \in 1..Len(f) |-> StringOrEmpty(f[i])])

\* lines 119-150
Assignees(row) ==
  LET a == CleanAssignees(RawAssignees(row.Assign))
  IN IF a = <<>> /\ Truthy(row.Owner) THEN <<ToStr(row.Owner)>> ELSE a

\* the comparison made without lower-casing
CollapseStatusCaseSensitive(statusStr) ==
  IF statusStr \in {sResolved, sCompleted, sVerified} THEN sClosed ELSE statusStr

\* lines 155-158
CollapseStatus(statusStr) ==
  IF ToLowerCase(statusStr) \in {sResolved, sCompleted, sVerified} THEN sClosed
  ELSE statusStr

\* lines 153-158
Status(row) ==
  CollapseStatus(IF Truthy(row.Status) THEN Trim(ToStr(row.Status)) ELSE sOpen)

\* the resolution date parsed whatever the status
ResolvedAnyStatus(row, statusStr) ==
  IF Truthy(row.ResolutionBy) THEN parseCustomDate(row.ResolutionBy) ELSE Null

\* line 162
Resolved(row, statusStr) ==
  IF statusStr = sClosed /\ Truthy(row.ResolutionBy)
  THEN parseCustomDate(row.ResolutionBy)
  ELSE Null

\* x > 0 of JavaScript: false for NaN
Positive(x) == ~IsNaN(x) /\ x > 0

\* hours.toFixed(2) read back by parseFloat, in HUNDREDTHS of an hour, for
\* hours = diffMs / (1000 * 60 * 60): the nearest hundredth of diffSec / 3600.
\* (No input of the model gives a difference that lies halfway.)
HoursToFixed2(diffSec) ==
  IF diffSec >= 0 THEN (diffSec + 18) \div 36 ELSE 0 - ((18 - diffSec) \div 36)

\* lines 165-170, then toFixed(2) of line 187
Hours(created, resolved) ==
  IF resolved.k = "date" /\ Positive(created.n) /\ Positive(resolved.n)
  THEN HoursToFixed2(resolved.n - created.n)
  ELSE 0

\* the clamp left out
ClampHoursMissing(h) == h

\* Math.max(0, h) of line 187
ClampHours(h) == IF h > 0 THEN h ELSE 0

\* parseFloat(...) || 0
NumberOrZero(x) == IF IsNaN(x) THEN 0 ELSE x

\* line 184, in tenths
Rating(row) ==
  IF Truthy(row.Rating) THEN NumberOrZero(ParseFloat(ToStr(row.Rating))) ELSE 0

\* tType || 'Unspecified'
OrUnspecified(tType) == IF tType # <<>> THEN tType ELSE sUnspecified

\* lines 173 and 182
TicketType(row) ==
  OrUnspecified(IF Truthy(row.TicketType) THEN Trim(ToStr(row.TicketType))
                ELSE sUnspecified)

\* lines 117-189: the ticket of one row; rnd is the text Math.random() gives
BuildTicket(row, rnd) ==
  LET statusStr == Status(row)
      created == parseCustomDate(row.Creation)
      resolved == Resolved(row, statusStr)
  IN [id |-> IF Truthy(row.Sr) THEN ToStr(row.Sr) ELSE rnd,
      subject |-> IF Truthy(row.Subject) THEN ToStr(row.Subject) ELSE sNoSubject,
      status |-> statusStr,
      assignees |-> Assignees(row),
      customer |-> IF Truthy(row.Customer) THEN ToStr(row.Customer) ELSE sUnknown,
      priority |-> IF Truthy(row.Priority) THEN row.Priority ELSE MkStr(sMedium),
      ticketType |-> TicketType(row),
      owner |-> IF Truthy(row.Owner) THEN ToStr(row.Owner) ELSE <<>>,
      rating |-> Rating(row),
      createdAt |-> created,
      resolvedAt |-> resolved,
      resolutionTimeHours |-> ClampHours(Hours(created, resolved))]

\* the rows of a batch that carry a Subject
RECURSIVE WithSubject(_)
WithSubject(rows) ==
  IF rows = <<>> THEN <<>>
  ELSE (IF Truthy(Head(rows).Subject) THEN <<Head(rows)>> ELSE <<>>)
       \o WithSubject(Tail(rows))

\* rows without a Subject skipped
parseRawDataSkipping(rows, rnds) ==
  [i \in 1..Len(WithSubject(rows)) |-> BuildTicket(WithSubject(rows)[i], rnds[i])]

\* data.map(row => ...): rnds[i] is the random text drawn for row i
parseRawData(rows, rnds) == [i \in 1..Len(rows) |-> BuildTicket(rows[i], rnds[i])]

\* whether the callback of data.map throws for this row
RowThrows(row) == AssignThrows(row.Assign)

\* ------------------------------------------------------------------ inputs

MaxRows == 3

MaxAssignLen == 3

MaxIds == 2

Pad2(n) == <<Digits[(n \div 10) + 1], Digits[(n % 10) + 1]>>

DayValues == {3, 15, 31}

MonthValues == {3, 4, 12}

YearValues == {2024}

Separators == {"-", ".", "/"}

\* "DD-MM-YYYY", "DD.MM.YYYY", "DD/MM/YYYY"
DmyText(d, m, y, sep) == Pad2(d) \o <<sep>> \o Pad2(m) \o <<sep>> \o NatToString(y)

\* "YYYY-MM-DD", "YYYY.MM.DD", "YYYY/MM/DD"
YmdText(d, m, y, sep) == NatToString(y) \o <<sep>> \o Pad2(m) \o <<sep>> \o Pad2(d)

DmyTexts == {DmyText(d, m, y, sep) : d \in DayValues, m \in MonthValues,
                                     y \in YearValues, sep \in Separators}

YmdTexts == {YmdText(d, m, y, sep) : d \in DayValues, m \in MonthValues,
                                     y \in YearValues, sep \in Separators}

\* 2024-03-15T12:00:00Z as a native date
NativeDate == MkDate(UtcTime(2024, 2, 15, 12, 0, 0))

OtherDateTexts ==
  {
    \* ""
    <<>>,
    \* "-"
    <<"-">>,
    \* " "
    <<" ">>,
    \* "null"
    <<"n", "u", "l", "l">>,
    \* "NULL"
    <<"N", "U", "L", "L">>,
    \* "abc"
    <<"a", "b", "c">>,
    \* "N/A"
    <<"N", "/", "A">>,
    \* "a-b-c"
    <<"a", "-", "b", "-", "c">>,
    \* "1-2"
    <<"1", "-", "2">>,
    \* "2024"
    <<"2", "0", "2", "4">>,
    \* "15-03-24"
    <<"1", "5", "-", "0", "3", "-", "2", "4">>,
    \* "03-04-24"
    <<"0", "3", "-", "0", "4", "-", "2", "4">>,
    \* "15-03-2024 10:30:00"
    <<"1", "5", "-", "0", "3", "-", "2", "0", "2", "4", " ", "1", "0", ":", "3", "0", ":",
      "0", "0">>,
    \* "15-03-2024 10:30"
    <<"1", "5", "-", "0", "3", "-", "2", "0", "2", "4", " ", "1", "0", ":", "3", "0">>,
    \* "15-03-2024 10:xx"
    <<"1", "5", "-", "0", "3", "-", "2", "0", "2", "4", " ", "1", "0", ":", "x", "x">>,
    \* "15-03-2024  10:30"
    <<"1", "5", "-", "0", "3", "-", "2", "0", "2", "4", " ", " ", "1", "0", ":", "3", "0">>,
    \* "03/04/2024 09:15:00"
    <<"0", "3", "/", "0", "4", "/", "2", "0", "2", "4", " ", "0", "9", ":", "1", "5", ":",
      "0", "0">>,
    \* "2024-03-15 10:30:00"
    <<"2", "0", "2", "4", "-", "0", "3", "-", "1", "5", " ", "1", "0", ":", "3", "0", ":",
      "0", "0">>,
    \* "2024-03-15T10:30:00"
    <<"2", "0", "2", "4", "-", "0", "3", "-", "1", "5", "T", "1", "0", ":", "3", "0", ":",
      "0", "0">>,
    \* "1969-12-31"
    <<"1", "9", "6", "9", "-", "1", "2", "-", "3", "1">>
  }

OtherDateCells ==
  {Undef, Null, MkNum(0), NativeDate, InvalidDate} \cup {MkStr(s) : s \in OtherDateTexts}

CreationCells == {MkStr(s) : s \in DmyTexts \cup YmdTexts} \cup OtherDateCells

ResolutionTexts ==
  {
    \* ""
    <<>>,
    \* "-"
    <<"-">>,
    \* "abc"
    <<"a", "b", "c">>,
    \* "a-b-c"
    <<"a", "-", "b", "-", "c">>,
    \* "14-03-2024"
    <<"1", "4", "-", "0", "3", "-", "2", "0", "2", "4">>,
    \* "2024-03-15"
    <<"2", "0", "2", "4", "-", "0", "3", "-", "1", "5">>,
    \* "16-03-2024 10:30:00"
    <<"1", "6", "-", "0", "3", "-", "2", "0", "2", "4", " ", "1", "0", ":", "3", "0", ":",
      "0", "0">>,
    \* "03-04-2024"
    <<"0", "3", "-", "0", "4", "-", "2", "0", "2", "4">>
  }

ResolutionCells ==
  {Undef, NativeDate, InvalidDate} \cup {MkStr(s) : s \in ResolutionTexts}

sOne == <<"1">>

\* "Resolved"
sResolvedCell == <<"R", "e", "s", "o", "l", "v", "e", "d">>

\* "16-03-2024 10:30:00"
sLaterText ==
  <<"1", "6", "-", "0", "3", "-", "2", "0", "2", "4", " ",
    "1", "0", ":", "3", "0", ":", "0", "0">>

\* a row with every column present and plain
BaseRow ==
  [Sr |-> MkStr(sOne),
   Subject |-> MkStr(<<"s">>),
   Status |-> MkStr(sOpen),
   ResolutionBy |-> Undef,
   Assign |-> MkStr(<<"a">>),
   Customer |-> MkStr(<<"c">>),
   Priority |-> MkStr(<<"H", "i", "g", "h">>),
   TicketType |-> MkStr(<<"S", "F", "D", "C">>),
   Owner |-> Undef,
   Rating |-> Undef,
   Creation |-> MkStr(<<"2", "0", "2", "4", "-", "0", "3", "-", "1", "5">>)]

\* closed rows with every resolution cell, open rows with some
DateRows ==
  {[BaseRow EXCEPT !.Creation = c, !.ResolutionBy = r, !.Status = MkStr(sResolvedCell)] :
     c \in CreationCells, r \in ResolutionCells}
  \cup
  {[BaseRow EXCEPT !.Creation = c, !.ResolutionBy = r] :
     c \in CreationCells, r \in {Undef, NativeDate, MkStr(sLaterText)}}

StatusTexts ==
  {
    \* "Resolved"
    <<"R", "e", "s", "o", "l", "v", "e", "d">>,
    \* "completed"
    <<"c", "o", "m", "p", "l", "e", "t", "e", "d">>,
    \* "VERIFIED"
    <<"V", "E", "R", "I", "F", "I", "E", "D">>,
    \* "Replied"
    <<"R", "e", "p", "l", "i", "e", "d">>,
    \* "Open"
    <<"O", "p", "e", "n">>,
    \* "Closed"
    <<"C", "l", "o", "s", "e", "d">>,
    \* "closed"
    <<"c", "l", "o", "s", "e", "d">>,
    \* " Resolved "
    <<" ", "R", "e", "s", "o", "l", "v", "e", "d", " ">>,
    \* " Replied "
    <<" ", "R", "e", "p", "l", "i", "e", "d", " ">>,
    \* "Re solved"
    <<"R", "e", " ", "s", "o", "l", "v", "e", "d">>,
    \* "  "
    <<" ", " ">>,
    \* "Overdue"
    <<"O", "v", "e", "r", "d", "u", "e">>
  }

StatusCells == {Undef, Null, MkStr(<<>>), MkNum(5)} \cup {MkStr(s) : s \in StatusTexts}

StatusRows ==
  {[BaseRow EXCEPT !.Status = st, !.ResolutionBy = r] :
     st \in StatusCells, r \in {Undef, MkStr(<<"a", "b", "c">>), MkStr(sLaterText)}}

RatingTexts ==
  {
    \* ""
    <<>>,
    \* "4"
    <<"4">>,
    \* "4.5"
    <<"4", ".", "5">>,
    \* "-3"
    <<"-", "3">>,
    \* "abc"
    <<"a", "b", "c">>,
    \* "5 stars"
    <<"5", " ", "s", "t", "a", "r", "s">>,
    \* " 3"
    <<" ", "3">>,
    \* "0"
    <<"0">>,
    \* ".5"
    <<".", "5">>,
    \* "-"
    <<"-">>
  }

RatingCells ==
  {Undef, Null, MkNum(0), MkNum(4), MkNum(-3)} \cup {MkStr(s) : s \in RatingTexts}

RatingRows ==
  {[BaseRow EXCEPT !.Rating = r, !.Status = MkStr(st)] :
     r \in RatingCells, st \in {sResolvedCell, sOpen}}

\* a cell that is absent, empty or filled
Optional(s) == {Undef, MkStr(<<>>), MkStr(s)}

DefaultRows ==
  {[BaseRow EXCEPT !.Subject = su, !.Status = st, !.Customer = cu, !.Priority = pr,
                   !.Owner = ow, !.Assign = Undef, !.TicketType = ty] :
     su \in Optional(<<"s">>), st \in Optional(<<"R", "e", "p", "l", "i", "e", "d">>),
     cu \in Optional(<<"c">>), pr \in Optional(<<"L", "o", "w">>),
     ow \in {Undef, MkStr(<<"o">>)}, ty \in Optional(<<"T">>) \cup {MkStr(<<" ">>)}}
  \cup
  {[BaseRow EXCEPT !.Sr = sr, !.Rating = ra, !.Creation = cr] :
     sr \in Optional(<<"7">>), ra \in {Undef, MkStr(<<>>)}, cr \in {Undef, MkStr(<<>>)}}

AssignAlphabet == {"a", " ", ",", "'", "[", "]"}

\* every text of AssignAlphabet of length n
RECURSIVE TextsOfLen(_)
TextsOfLen(n) ==
  IF n = 0 THEN {<<>>}
  ELSE {Append(s, c) : s \in TextsOfLen(n - 1), c \in AssignAlphabet}

AssignTexts == UNION {TextsOfLen(n) : n \in 0..MaxAssignLen}

IdPool == {<<"a">>, <<"b">>, <<"a", " ", "b">>, <<" ", "a">>, <<>>}

IdLists == UNION {[1..n -> IdPool] : n \in 0..MaxIds}

RECURSIVE Join(_, _)
Join(ss, sep) ==
  IF ss = <<>> THEN <<>>
  ELSE IF Len(ss) = 1 THEN ss[1]
  ELSE ss[1] \o sep \o Join(Tail(ss), sep)

\* the cell "['a', 'b']" of a list of agent identifiers
BracketCell(ids) ==
  MkStr(<<"[">>
        \o Join([i \in 1..Len(ids) |-> <<"'">> \o ids[i] \o <<"'">>], <<",", " ">>)
        \o <<"]">>)

\* the cell "a, b" of a list of agent identifiers
CsvCell(ids) == MkStr(Join(ids, <<",", " ">>))

OtherAssignTexts ==
  {
    \* "[a, b]"
    <<"[", "a", ",", " ", "b", "]">>,
    \* "['a@x', 'b@x']"
    <<"[", "'", "a", "@", "x", "'", ",", " ", "'", "b", "@", "x", "'", "]">>,
    \* "a@x, b@x"
    <<"a", "@", "x", ",", " ", "b", "@", "x">>,
    \* "[['a', 'b'], 'a']"
    <<"[", "[", "'", "a", "'", ",", " ", "'", "b", "'", "]", ",", " ", "'", "a", "'", "]">>,
    \* "[[['a', 'b']]]"
    <<"[", "[", "[", "'", "a", "'", ",", " ", "'", "b", "'", "]", "]", "]">>,
    \* "[1, null, '', 0]"
    <<"[", "1", ",", " ", "n", "u", "l", "l", ",", " ", "'", "'", ",", " ", "0", "]">>,
    \* "['a',]"
    <<"[", "'", "a", "'", ",", "]">>,
    \* "[ 'a' , ' b ' ]"
    <<"[", " ", "'", "a", "'", " ", ",", " ", "'", " ", "b", " ", "'", " ", "]">>,
    \* ["a", 'b']
    <<"[", "\"", "a", "\"", ",", " ", "'", "b", "'", "]">>,
    \* "[01]"
    <<"[", "0", "1", "]">>
  }

OtherAssignCells ==
  {Undef, Null, MkNum(7), MkNum(0),
   MkArr(<<MkStr(<<"a">>), MkStr(<<"b">>)>>),
   MkArr(<<MkStr(<<" ", "a", " ">>), MkStr(<<>>), Null>>),
   MkArr(<<MkArr(<<MkStr(<<"a">>), MkStr(<<"b">>)>>)>>),
   MkArr(<<>>)}
  \cup {MkStr(s) : s \in OtherAssignTexts}

AssignCells ==
  {MkStr(s) : s \in AssignTexts} \cup OtherAssignCells
  \cup {BracketCell(ids) : ids \in IdLists} \cup {CsvCell(ids) : ids \in IdLists}

OwnerCells ==
  {Undef, MkStr(<<"c", "@", "x">>), MkStr(<<" ", " ">>), MkStr(<<" ", "o", " ">>)}

AssignRows ==
  {[BaseRow EXCEPT !.Assign = a, !.Owner = o] :
     a \in AssignCells, o \in {Undef, MkStr(<<" ", "o", " ">>)}}
  \cup
  {[BaseRow EXCEPT !.Assign = a, !.Owner = o] : a \in OtherAssignCells, o \in OwnerCells}

\* the same agents written once in brackets and once comma-separated
PairOf(ids) ==
  <<[BaseRow EXCEPT !.Assign = BracketCell(ids)], [BaseRow EXCEPT !.Assign = CsvCell(ids)]>>

PairBatches == {PairOf(ids) : ids \in IdLists}

\* the rows of the longer batches: told apart by their Sr column
BatchRows ==
  {[BaseRow EXCEPT !.Sr = MkStr(<<"1">>)],
   [BaseRow EXCEPT !.Sr = MkStr(<<"2">>), !.Status = MkStr(sResolvedCell),
                   !.ResolutionBy = MkStr(sLaterText)],
   [BaseRow EXCEPT !.Sr = MkStr(<<"3">>), !.Assign = MkStr(<<"[", "'", "a", "'">>),
                   !.Subject = Undef],
   [BaseRow EXCEPT !.Sr = Undef, !.TicketType = Undef]}

Batches == UNION {[1..n -> BatchRows] : n \in 0..MaxRows}

SingleRows == DateRows \cup StatusRows \cup RatingRows \cup DefaultRows \cup AssignRows

Inputs == {<<r>> : r \in SingleRows} \cup PairBatches \cup Batches

\* what Math.random().toString(36).substr(2, 9) may give
RandomIds == {<<"r", "1">>, <<"r", "2">>}

\* ------------------------------------------------------------------ processFile

\* String.prototype.replace(/[\s_-]/g, '')
RECURSIVE StripSeparators(_)
StripSeparators(s) ==
  IF s = <<>> THEN <<>>
  ELSE (IF Head(s) \in {" ", "_", "-"} THEN <<>> ELSE <<Head(s)>>)
       \o StripSeparators(Tail(s))

\* line 33
normalizeHeader(h) == StripSeparators(Trim(ToLowerCase(h)))

\* lines 35-72: the own properties of the object literal, in source order
columnMap ==
  <<
    <<<<"t", "i", "c", "k", "e", "t", "t", "y", "p", "e">>, "TicketType">>,
    <<<<"t", "y", "p", "e">>, "TicketType">>,
    <<<<"m", "o", "d", "u", "l", "e">>, "TicketType">>,
    <<<<"c", "a", "t", "e", "g", "o", "r", "y">>, "TicketType">>,
    <<<<"c", "l", "a", "s", "s", "i", "f", "i", "c", "a", "t", "i", "o", "n">>, "TicketType">>,
    <<<<"i", "t", "e", "m">>, "TicketType">>,
    <<<<"i", "s", "s", "u", "e", "t", "y", "p", "e">>, "TicketType">>,
    <<<<"r", "e", "s", "o", "l", "u", "t", "i", "o", "n", "b", "y">>, "ResolutionBy">>,
    <<<<"r", "e", "s", "o", "l", "v", "e", "d", "d", "a", "t", "e">>, "ResolutionBy">>,
    <<<<"r", "e", "s", "o", "l", "v", "e", "d", "o", "n">>, "ResolutionBy">>,
    <<<<"c", "o", "m", "p", "l", "e", "t", "e", "d", "o", "n">>, "ResolutionBy">>,
    <<<<"c", "l", "o", "s", "e", "d", "o", "n">>, "ResolutionBy">>,
    <<<<"r", "e", "s", "o", "l", "u", "t", "i", "o", "n", "t", "i", "m", "e">>, "ResolutionBy">>,
    <<<<"a", "s", "s", "i", "g", "n", "e", "d", "t", "o">>, "Assign">>,
    <<<<"a", "s", "s", "i", "g", "n">>, "Assign">>,
    <<<<"a", "s", "s", "i", "g", "n", "e", "e">>, "Assign">>,
    <<<<"a", "s", "s", "i", "g", "n", "e", "e", "s">>, "Assign">>,
    <<<<"a", "g", "e", "n", "t">>, "Assign">>,
    <<<<"h", "a", "n", "d", "l", "e", "d", "b", "y">>, "Assign">>,
    <<<<"a", "l", "l", "o", "c", "a", "t", "e", "d", "t", "o">>, "Assign">>,
    <<<<"u", "s", "e", "r">>, "Assign">>,
    <<<<"c", "r", "e", "a", "t", "e", "d", "o", "n">>, "Creation">>,
    <<<<"c", "r", "e", "a", "t", "i", "o", "n">>, "Creation">>,
    <<<<"c", "r", "e", "a", "t", "e", "d">>, "Creation">>,
    <<<<"d", "a", "t", "e">>, "Creation">>,
    <<<<"o", "p", "e", "n", "d", "a", "t", "e">>, "Creation">>,
    <<<<"t", "i", "m", "e", "s", "t", "a", "m", "p">>, "Creation">>,
    <<<<"p", "o", "s", "t", "i", "n", "g", "d", "a", "t", "e">>, "Creation">>,
    <<<<"s", "u", "b", "m", "i", "t", "t", "e", "d", "o", "n">>, "Creation">>,
    <<<<"s", "u", "b", "j", "e", "c", "t">>, "Subject">>,
    <<<<"t", "i", "t", "l", "e">>, "Subject">>,
    <<<<"i", "s", "s", "u", "e">>, "Subject">>,
    <<<<"d", "e", "s", "c", "r", "i", "p", "t", "i", "o", "n">>, "Subject">>,
    <<<<"s", "u", "m", "m", "a", "r", "y">>, "Subject">>,
    <<<<"n", "a", "m", "e">>, "Subject">>,
    <<<<"w", "o", "r", "k", "f", "l", "o", "w", "s", "t", "a", "t", "e">>, "Status">>,
    <<<<"s", "t", "a", "t", "e">>, "Status">>,
    <<<<"s", "t", "a", "t", "u", "s">>, "Status">>,
    <<<<"s", "t", "a", "g", "e">>, "Status">>,
    <<<<"c", "u", "r", "r", "e", "n", "t", "s", "t", "a", "t", "u", "s">>, "Status">>,
    <<<<"c", "u", "s", "t", "o", "m", "e", "r">>, "Customer">>,
    <<<<"c", "l", "i", "e", "n", "t">>, "Customer">>,
    <<<<"c", "a", "l", "l", "e", "r">>, "Customer">>,
    <<<<"r", "a", "i", "s", "e", "d", "b", "y">>, "Customer">>,
    <<<<"c", "o", "n", "t", "a", "c", "t">>, "Customer">>,
    <<<<"s", "e", "n", "d", "e", "r">>, "Customer">>,
    <<<<"p", "r", "i", "o", "r", "i", "t", "y">>, "Priority">>,
    <<<<"u", "r", "g", "e", "n", "c", "y">>, "Priority">>,
    <<<<"s", "e", "v", "e", "r", "i", "t", "y">>, "Priority">>,
    <<<<"i", "m", "p", "a", "c", "t">>, "Priority">>,
    <<<<"o", "w", "n", "e", "r">>, "Owner">>,
    <<<<"c", "r", "e", "a", "t", "e", "d", "b", "y">>, "Owner">>,
    <<<<"a", "u", "t", "h", "o", "r">>, "Owner">>,
    <<<<"r", "a", "t", "i", "n", "g">>, "Rating">>,
    <<<<"f", "e", "e", "d", "b", "a", "c", "k">>, "Rating">>,
    <<<<"c", "s", "a", "t">>, "Rating">>,
    <<<<"s", "c", "o", "r", "e">>, "Rating">>,
    <<<<"s", "t", "a", "r", "s">>, "Rating">>,
    <<<<"s", "r">>, "Sr">>,
    <<<<"i", "d">>, "Sr">>,
    <<<<"t", "i", "c", "k", "e", "t", "i", "d">>, "Sr">>,
    <<<<"n", "u", "m", "b", "e", "r">>, "Sr">>,
    <<<<"r", "e", "f">>, "Sr">>
  >>

\* String(Object): the key newRow gets when columnMap[normalized] is the
\* constructor function every object literal inherits from Object.prototype
sObjectFunction ==
  <<"f", "u", "n", "c", "t", "i", "o", "n", " ", "O", "b", "j", "e", "c", "t", "(", ")", " ", "{", " ", "[", "n", "a", "t", "i", "v", "e", " ", "c", "o", "d", "e", "]", " ", "}">>

\* columnMap[normalized], a property read of a plain object: an own property of
\* the literal, else a property inherited from Object.prototype (of the
\* lower-case names without separator that is "constructor" alone, a function
\* and so truthy), else undefined
ColumnLookup(normalized) ==
  IF \E i \in 1..Len(columnMap) : columnMap[i][1] = normalized
  THEN [kind |-> "own",
        field |-> columnMap[CHOOSE i \in 1..Len(columnMap) : columnMap[i][1] = normalized][2]]
  ELSE IF normalized = <<"c", "o", "n", "s", "t", "r", "u", "c", "t", "o", "r">>
    THEN [kind |-> "inherited", field |-> ""]
  ELSE [kind |-> "undefined", field |-> ""]


\* a row before any column is mapped
EmptyRow ==
  [Sr |-> Undef, Subject |-> Undef, Status |-> Undef, ResolutionBy |-> Undef,
   Assign |-> Undef, Customer |-> Undef, Priority |-> Undef, TicketType |-> Undef,
   Owner |-> Undef, Rating |-> Undef, Creation |-> Undef, extra |-> <<>>]

\* newRow[key] = v for a key outside the canonical columns: a key that is
\* already there keeps its place and gets the new value
PutExtra(extra, key, v) ==
  IF \E i \in 1..Len(extra) : extra[i][1] = key
  THEN [i \in 1..Len(extra) |-> IF extra[i][1] = key THEN <<key, v>> ELSE extra[i]]
  ELSE Append(extra, <<key, v>>)

\* lines 76-83: Object.keys(row).forEach(...); row is the sequence of the
\* <<key, value>> pairs of the raw row, in key order
RECURSIVE MapKeys(_, _)
MapKeys(row, newRow) ==
  IF row = <<>> THEN newRow
  ELSE LET key == row[1][1]
           v == row[1][2]
           c == ColumnLookup(normalizeHeader(key))
       IN MapKeys(Tail(row),
                  CASE c.kind = "own" -> [newRow EXCEPT ![c.field] = v]
                    [] c.kind = "inherited" ->
                         [newRow EXCEPT !.extra = PutExtra(@, sObjectFunction, v)]
                    [] OTHER -> [newRow EXCEPT !.extra = PutExtra(@, key, v)])

\* lines 86-91
WithDefaults(newRow) ==
  LET r == [newRow EXCEPT
              !.TicketType = IF Truthy(@) THEN @ ELSE MkStr(sUnspecified),
              !.Status = IF Truthy(@) THEN @ ELSE MkStr(sOpen),
              !.Subject = IF Truthy(@) THEN @ ELSE MkStr(sNoSubject)]
  IN IF ~Truthy(r.Assign) /\ Truthy(r.Owner) THEN [r EXCEPT !.Assign = r.Owner] ELSE r

\* lines 74-94: jsonData
NormalizeRows(rows) == [i \in 1..Len(rows) |-> WithDefaults(MapKeys(rows[i], EmptyRow))]

\* the messages setError can get
msgEmptyFile == "The file appears to be empty."

msgCouldNotParse == "Could not parse any tickets. Please check your column headers."

\* the message of an exception of XLSX.read or of parseRawData
msgThrown == "(the message of the exception thrown)"

\* lines 98-105: how processFile ends for a file that XLSX reads as rows (ok)
\* or rejects, given jsonData, whether parseRawData throws, and what it
\* returns: the message setError gets ("" for none) and the tickets
\* onDataLoaded gets
processFileEnd(file, jsonData, throws, parsed) ==
  LET msg == IF ~file.ok THEN msgThrown
             ELSE IF Len(file.rows) = 0 THEN msgEmptyFile
             ELSE IF throws THEN msgThrown
             ELSE IF Len(parsed) = 0 THEN msgCouldNotParse
             ELSE ""
  IN [jsonData |-> IF file.ok THEN jsonData ELSE <<>>,
      threw |-> file.ok /\ throws,
      error |-> msg,
      tickets |-> IF msg = "" THEN parsed ELSE <<>>]

\* line 96
processFileParse(file, jsonData, rnds) ==
  processFileEnd(file, jsonData,
                 \E i \in 1..Len(jsonData) : RowThrows(jsonData[i]),
                 parseRawData(jsonData, rnds))

\* lines 21-105
processFileResult(file, rnds) == processFileParse(file, NormalizeRows(file.rows), rnds)

\* ------------------------------------------------------------------ uploaded files

MaxCols == 2

MaxFileRows == 2

HeaderTexts ==
  {
    \* "Assigned To"
    <<"A", "s", "s", "i", "g", "n", "e", "d", " ", "T", "o">>,
    \* "assignee"
    <<"a", "s", "s", "i", "g", "n", "e", "e">>,
    \* "AGENT"
    <<"A", "G", "E", "N", "T">>,
    \* "Created_On"
    <<"C", "r", "e", "a", "t", "e", "d", "_", "O", "n">>,
    \* "resolved-date"
    <<"r", "e", "s", "o", "l", "v", "e", "d", "-", "d", "a", "t", "e">>,
    \* "Status"
    <<"S", "t", "a", "t", "u", "s">>,
    \* " title "
    <<" ", "t", "i", "t", "l", "e", " ">>,
    \* "Owner"
    <<"O", "w", "n", "e", "r">>,
    \* "foo"
    <<"f", "o", "o">>,
    \* "Foo Bar"
    <<"F", "o", "o", " ", "B", "a", "r">>,
    \* "Constructor"
    <<"C", "o", "n", "s", "t", "r", "u", "c", "t", "o", "r">>,
    \* "constructor"
    <<"c", "o", "n", "s", "t", "r", "u", "c", "t", "o", "r">>
  }

\* the sequences of n distinct headers
RECURSIVE HeaderLists(_)
HeaderLists(n) ==
  IF n = 0 THEN {<<>>}
  ELSE {Append(hs, h) : hs \in HeaderLists(n - 1), h \in HeaderTexts}

\* a raw row: column j holds the text of the number j
RawRowOf(hs) == [j \in 1..Len(hs) |-> <<hs[j], MkStr(NatToString(j))>>]

RawRows ==
  {RawRowOf(hs) : hs \in {x \in UNION {HeaderLists(n) : n \in 1..MaxCols} :
                            \A i, j \in 1..Len(x) : i # j => x[i] # x[j]}}

\* the rows of the files of several rows
FileRowPool ==
  {RawRowOf(<<<<"f", "o", "o">>>>), RawRowOf(<<<<"S", "t", "a", "t", "u", "s">>>>), RawRowOf(<<<<"A", "G", "E", "N", "T">>, <<"C", "r", "e", "a", "t", "e", "d", "_", "O", "n">>>>)}

UploadFiles ==
  {[ok |-> FALSE, rows |-> <<>>], [ok |-> TRUE, rows |-> <<>>]}
  \cup {[ok |-> TRUE, rows |-> <<r>>] : r \in RawRows}
  \cup {[ok |-> TRUE, rows |-> rs] : rs \in UNION {[1..n -> FileRowPool] : n \in 2..MaxFileRows}}


\* ------------------------------------------------------------------ instants

\* An instant of the dashboard is a record [s, ms]: the whole seconds since the
\* epoch and the milliseconds 0..999 within the second (getTime() is
\* s * 1000 + ms); an Invalid Date has s = NaN.
Instant(s, ms) == [s |-> s, ms |-> ms]

InvalidInstant == Instant(NaN, 0)

\* a >= b, a < b and a <= b of two Date objects: each is false when either
\* time value is NaN
DateGeq(a, b) ==
  ~IsNaN(a.s) /\ ~IsNaN(b.s) /\ (a.s > b.s \/ (a.s = b.s /\ a.ms >= b.ms))

DateLt(a, b) ==
  ~IsNaN(a.s) /\ ~IsNaN(b.s) /\ (a.s < b.s \/ (a.s = b.s /\ a.ms < b.ms))

DateLeq(a, b) ==
  ~IsNaN(a.s) /\ ~IsNaN(b.s) /\ (a.s < b.s \/ (a.s = b.s /\ a.ms <= b.ms))

\* new Date(now.getTime() - days * 24 * 60 * 60 * 1000)
DaysBefore(now, days) == Instant(now.s - days * SecondsPerDay, now.ms)

\* the civil year and the zero-based month of day z (days since 1970-01-01)
CivilFromDays(z) ==
  LET zz == z + 719468
      era == FloorDiv(zz, 146097)
      doe == zz - era * 146097
      yoe == (doe - doe \div 1460 + doe \div 36524 - doe \div 146096) \div 365
      doy == doe - (365 * yoe + yoe \div 4 - yoe \div 100)
      mp == (5 * doy + 2) \div 153
      m == IF mp < 10 THEN mp + 3 ELSE mp - 9
  IN [year |-> yoe + era * 400 + (IF m <= 2 THEN 1 ELSE 0), month0 |-> m - 1]

\* now.getFullYear() and now.getMonth(): local time
getFullYear(t) == CivilFromDays(FloorDiv(t.s + tz * 3600, SecondsPerDay)).year

getMonth(t) == CivilFromDays(FloorDiv(t.s + tz * 3600, SecondsPerDay)).month0

\* new Date(year, month0, day, h, mi, s, ms): local time
LocalInstant(year, month0, day, h, mi, s, ms) ==
  Instant(UtcTime(year, month0, day, h, mi, s) - tz * 3600, ms)

\* ------------------------------------------------------------------ filterTickets

TimeRanges == {"all", "last-7-days", "last-30-days", "this-month", "last-month"}

\* lines 192-217; now is the value of new Date()
filterTickets(ts, range, now) ==
  CASE range = "last-7-days" ->
         SelectSeq(ts, LAMBDA t : DateGeq(t.createdAt, DaysBefore(now, 7)))
    [] range = "last-30-days" ->
         SelectSeq(ts, LAMBDA t : DateGeq(t.createdAt, DaysBefore(now, 30)))
    [] range = "this-month" ->
         SelectSeq(ts, LAMBDA t :
           DateGeq(t.createdAt, LocalInstant(getFullYear(now), getMonth(now), 1, 0, 0, 0, 0)))
    [] range = "last-month" ->
         SelectSeq(ts, LAMBDA t :
           /\ DateGeq(t.createdAt,
                      LocalInstant(getFullYear(now), getMonth(now) - 1, 1, 0, 0, 0, 0))
           /\ DateLeq(t.createdAt,
                      LocalInstant(getFullYear(now), getMonth(now), 0, 23, 59, 59, 0)))
    [] OTHER -> ts

\* the previous window of last-7-days and last-30-days closed at its upper end
getPreviousPeriodTicketsClosedEnd(ts, range, now) ==
  CASE range = "last-7-days" ->
         SelectSeq(ts, LAMBDA t : /\ DateGeq(t.createdAt, DaysBefore(now, 14))
                                  /\ DateLeq(t.createdAt, DaysBefore(now, 7)))
    [] range = "last-30-days" ->
         SelectSeq(ts, LAMBDA t : /\ DateGeq(t.createdAt, DaysBefore(now, 60))
                                  /\ DateLeq(t.createdAt, DaysBefore(now, 30)))
    [] OTHER -> <<>>

\* the previous period of "all" being every ticket
getPreviousPeriodTicketsAllKept(ts, range, now) ==
  CASE range = "last-7-days" ->
         SelectSeq(ts, LAMBDA t : /\ DateGeq(t.createdAt, DaysBefore(now, 14))
                                  /\ DateLt(t.createdAt, DaysBefore(now, 7)))
    [] range = "last-30-days" ->
         SelectSeq(ts, LAMBDA t : /\ DateGeq(t.createdAt, DaysBefore(now, 60))
                                  /\ DateLt(t.createdAt, DaysBefore(now, 30)))
    [] OTHER -> ts

\* lines 219-249; now is the value of new Date()
getPreviousPeriodTickets(ts, range, now) ==
  CASE range = "last-7-days" ->
         SelectSeq(ts, LAMBDA t : /\ DateGeq(t.createdAt, DaysBefore(now, 14))
                                  /\ DateLt(t.createdAt, DaysBefore(now, 7)))
    [] range = "last-30-days" ->
         SelectSeq(ts, LAMBDA t : /\ DateGeq(t.createdAt, DaysBefore(now, 60))
                                  /\ DateLt(t.createdAt, DaysBefore(now, 30)))
    [] range = "this-month" ->
         SelectSeq(ts, LAMBDA t :
           /\ DateGeq(t.createdAt,
                      LocalInstant(getFullYear(now), getMonth(now) - 1, 1, 0, 0, 0, 0))
           /\ DateLeq(t.createdAt,
                      LocalInstant(getFullYear(now), getMonth(now), 0, 23, 59, 59, 999)))
    [] range = "last-month" ->
         SelectSeq(ts, LAMBDA t :
           /\ DateGeq(t.createdAt,
                      LocalInstant(getFullYear(now), getMonth(now) - 2, 1, 0, 0, 0, 0))
           /\ DateLeq(t.createdAt,
                      LocalInstant(getFullYear(now), getMonth(now) - 1, 0, 23, 59, 59, 999)))
    [] OTHER -> <<>>

\* ------------------------------------------------------------------ Dashboard

\* The numbers of the dashboard are exact fractions [n, d] with d > 0, in
\* lowest terms (equal numbers are equal records).  resolutionTimeHours is
\* held in hundredths of an hour and rating in tenths, as in the tickets.
RECURSIVE GCD(_, _)
GCD(a, b) == IF b = 0 THEN a ELSE GCD(b, a % b)

Abs(x) == IF x < 0 THEN 0 - x ELSE x

Frac(n, d) ==
  LET sn == IF d < 0 THEN 0 - n ELSE n
      sd == Abs(d)
      g == GCD(Abs(sn), sd)
  IN [n |-> sn \div g, d |-> sd \div g]

RECURSIVE SumClosed(_, _)
SumClosed(ts, field) ==
  IF ts = <<>> THEN 0
  ELSE (IF Head(ts).status = sClosed THEN Head(ts)[field] ELSE 0) + SumClosed(Tail(ts), field)

\* the averages taken over every ticket
calculateStatsOverAll(ts) ==
  LET total == Len(ts)
      open == Len(SelectSeq(ts, LAMBDA t : t.status # sClosed))
      closed == Len(SelectSeq(ts, LAMBDA t : t.status = sClosed))
  IN [total |-> total, open |-> open, closed |-> closed,
      avgResolution |->
        IF total > 0 THEN Frac(SumClosed(ts, "resolutionTimeHours"), 100 * total)
        ELSE Frac(0, 1),
      avgRating |->
        IF total > 0 THEN Frac(SumClosed(ts, "rating"), 10 * total) ELSE Frac(0, 1)]

\* lines 89-98
calculateStats(ts) ==
  LET total == Len(ts)
      open == Len(SelectSeq(ts, LAMBDA t : t.status # sClosed))
      closed == Len(SelectSeq(ts, LAMBDA t : t.status = sClosed))
  IN [total |-> total, open |-> open, closed |-> closed,
      avgResolution |->
        IF closed > 0 THEN Frac(SumClosed(ts, "resolutionTimeHours"), 100 * closed)
        ELSE Frac(0, 1),
      avgRating |->
        IF closed > 0 THEN Frac(SumClosed(ts, "rating"), 10 * closed) ELSE Frac(0, 1)]

\* curr - pre
FracMinus(curr, pre) == Frac(curr.n * pre.d - pre.n * curr.d, curr.d * pre.d)

\* a previous value of 0 giving a change of 0
getPctDiffZeroBase(curr, pre) ==
  IF pre.n = 0 THEN Frac(0, 1)
  ELSE Frac((curr.n * pre.d - pre.n * curr.d) * 100, curr.d * pre.n)

\* lines 104-107
getPctDiff(curr, pre) ==
  IF pre.n = 0 THEN (IF curr.n = 0 THEN Frac(0, 1) ELSE Frac(100, 1))
  ELSE Frac((curr.n * pre.d - pre.n * curr.d) * 100, curr.d * pre.n)

\* diff.toFixed(1): "-" for a negative number (also when it rounds to 0.0),
\* then the nearest tenth of its magnitude, a tie going up
toFixed1(diff) ==
  LET tenths == (Abs(diff.n) * 20 + diff.d) \div (2 * diff.d)
  IN (IF diff.n < 0 THEN <<"-">> ELSE <<>>)
     \o NatToString(tenths \div 10) \o <<".", Digits[(tenths % 10) + 1]>>

\* the "+" put before a change of zero as well
formatTrendPlusZero(diff, suffix) ==
  (IF diff.n >= 0 THEN <<"+">> ELSE <<>>) \o toFixed1(diff) \o suffix

\* lines 109-111
formatTrend(diff, suffix) ==
  (IF diff.n > 0 THEN <<"+">> ELSE <<>>) \o toFixed1(diff) \o suffix

\* a rating trend marked like the others
RatingIsPositiveInverted(ratingDiff) == ratingDiff.n <= 0

\* line 128
RatingIsPositive(ratingDiff) == ratingDiff.n >= 0

\* lines 88-137: the value of the useMemo; diffs are its locals totalDiff,
\* resolutionDiff, ratingDiff and openDiff
DashboardStats(ts, previousTickets) ==
  LET current == calculateStats(ts)
      prev == calculateStats(previousTickets)
      totalDiff == getPctDiff(Frac(current.total, 1), Frac(prev.total, 1))
      resolutionDiff == getPctDiff(current.avgResolution, prev.avgResolution)
      ratingDiff == FracMinus(current.avgRating, prev.avgRating)
      openDiff == getPctDiff(Frac(current.open, 1), Frac(prev.open, 1))
  IN [current |-> current,
      prev |-> prev,
      diffs |-> [total |-> totalDiff, resolution |-> resolutionDiff,
                 rating |-> ratingDiff, open |-> openDiff],
      trends |->
        [total |-> [text |-> formatTrend(totalDiff, <<"%">>), isPositive |-> totalDiff.n <= 0],
         resolution |-> [text |-> formatTrend(resolutionDiff, <<"%">>),
                         isPositive |-> resolutionDiff.n <= 0],
         rating |-> [text |-> formatTrend(ratingDiff, <<>>),
                     isPositive |-> RatingIsPositive(ratingDiff)],
         open |-> [text |-> formatTrend(openDiff, <<"%">>), isPositive |-> openDiff.n <= 0]]]

\* StatsCard lines 23-30: the colour of the trend text
TrendColour(trendUp) == IF trendUp THEN "green" ELSE "red"

\* ------------------------------------------------------------------ dashboard inputs

MaxPop == 2

\* 2024-03-15T12:00:00.250Z, and 2024-01-01T02:00:00.000Z (the last evening of
\* December west of Greenwich)
Nows == {Instant(UtcTime(2024, 2, 15, 12, 0, 0), 250), Instant(UtcTime(2024, 0, 1, 2, 0, 0), 0)}

BaseNow == Instant(UtcTime(2024, 2, 15, 12, 0, 0), 250)

\* one millisecond earlier
Before1ms(t) == IF t.ms > 0 THEN Instant(t.s, t.ms - 1) ELSE Instant(t.s - 1, 999)

\* the instants at and next to every boundary of every window anchored at n
EdgeInstants(n) ==
  LET som == LocalInstant(getFullYear(n), getMonth(n), 1, 0, 0, 0, 0)
      solm == LocalInstant(getFullYear(n), getMonth(n) - 1, 1, 0, 0, 0, 0)
      so2m == LocalInstant(getFullYear(n), getMonth(n) - 2, 1, 0, 0, 0, 0)
  IN <<DaysBefore(n, 7), Before1ms(DaysBefore(n, 7)),
       DaysBefore(n, 14), Before1ms(DaysBefore(n, 14)),
       DaysBefore(n, 30), Before1ms(DaysBefore(n, 30)),
       DaysBefore(n, 60), Before1ms(DaysBefore(n, 60)),
       n, Instant(n.s + SecondsPerDay, n.ms),
       som, Before1ms(som), Instant(som.s - 1, 0), Instant(som.s - 1, 500),
       solm, Before1ms(solm), so2m, Before1ms(so2m),
       Instant(0, 0), InvalidInstant>>

\* "Replied"
sReplied == <<"R", "e", "p", "l", "i", "e", "d">>

\* what the statistics read of a ticket: an open ticket has no resolution time
\* (parseRawData) but may carry a rating
TicketKinds ==
  {[status |-> sReplied, resolutionTimeHours |-> 0, rating |-> 50],
   [status |-> sClosed, resolutionTimeHours |-> 100, rating |-> 40],
   [status |-> sClosed, resolutionTimeHours |-> 250, rating |-> 45]}

KindOpen == [status |-> sOpen, resolutionTimeHours |-> 0, rating |-> 0]

\* a closed ticket with the negative rating parseRawData lets through
KindClosedNegative == [status |-> sClosed, resolutionTimeHours |-> 0, rating |-> -30]

KindLists == UNION {[1..n -> TicketKinds] : n \in 0..MaxPop}

DashTicket(i, at, kind) ==
  [id |-> i, createdAt |-> at, status |-> kind.status,
   resolutionTimeHours |-> kind.resolutionTimeHours, rating |-> kind.rating]

\* cur tickets created a day before BaseNow, then prev tickets created ten
\* days before it
TwoPeriods(cur, prev) ==
  [i \in 1..Len(cur) |-> DashTicket(i, DaysBefore(BaseNow, 1), cur[i])]
  \o [i \in 1..Len(prev) |-> DashTicket(Len(cur) + i, DaysBefore(BaseNow, 10), prev[i])]

\* a ticket at every edge instant of n, open and closed in turn
EdgePopulation(n) ==
  [i \in 1..Len(EdgeInstants(n)) |->
     DashTicket(i, EdgeInstants(n)[i],
                IF i % 2 = 0 THEN KindOpen
                ELSE [status |-> sClosed, resolutionTimeHours |-> 100, rating |-> 40])]

Populations ==
  {TwoPeriods(cur, prev) : cur \in KindLists, prev \in KindLists}
  \cup {EdgePopulation(n) : n \in Nows}
  \cup {TwoPeriods([i \in 1..120 |-> KindOpen], [i \in 1..100 |-> KindOpen]),
        TwoPeriods(<<KindClosedNegative>>, <<KindOpen>>),
        TwoPeriods(<<KindOpen>>, <<KindClosedNegative, KindOpen>>)}

\* ------------------------------------------------------------------ calculateAgentMetrics

\* the entry a new agent gets in the map (line 264)
NewAgentEntry(cleanAgent) ==
  [key |-> cleanAgent, total |-> 0, ratingSum |-> 0, timeSum |-> 0,
   resolvedCount |-> 0, active |-> 0]

\* where the map holds the key, 0 when it does not (map.has)
MapIndex(map, key) ==
  IF \E i \in 1..Len(map) : map[i].key = key
  THEN CHOOSE i \in 1..Len(map) : map[i].key = key
  ELSE 0

\* lines 268-276: the ticket t added to the entry of one agent
CountTicket(entry, t) ==
  IF t.status = sClosed
  THEN [entry EXCEPT !.total = @ + 1, !.ratingSum = @ + t.rating,
                     !.timeSum = @ + t.resolutionTimeHours, !.resolvedCount = @ + 1]
  ELSE [entry EXCEPT !.total = @ + 1, !.active = @ + 1]

\* lines 257-277: the callback of t.assignees.forEach; a Map keeps its keys in
\* the order they were first set
VisitAgent(map, agent, t) ==
  LET cleanAgent == Trim(agent)
  IN IF agent = <<>> \/ cleanAgent = <<>> THEN map
     ELSE LET m == IF MapIndex(map, cleanAgent) = 0
                   THEN Append(map, NewAgentEntry(cleanAgent)) ELSE map
              i == MapIndex(m, cleanAgent)
          IN [m EXCEPT ![i] = CountTicket(m[i], t)]

RECURSIVE VisitAgents(_, _, _)
VisitAgents(map, agentList, t) ==
  IF agentList = <<>> THEN map
  ELSE VisitAgents(VisitAgent(map, Head(agentList), t), Tail(agentList), t)

\* lines 254-278
RECURSIVE VisitTickets(_, _)
VisitTickets(map, ts) ==
  IF ts = <<>> THEN map
  ELSE VisitTickets(VisitAgents(map, Head(ts).assignees, Head(ts)), Tail(ts))

\* lines 281-291: ticket ratings are in tenths, resolution times in hundredths
AgentMetricsOf(value) ==
  [email |-> value.key,
   totalTickets |-> value.total,
   avgRating |-> IF value.resolvedCount > 0
                 THEN Frac(value.ratingSum, 10 * value.resolvedCount) ELSE Frac(0, 1),
   avgResolutionHours |-> IF value.resolvedCount > 0
                          THEN Frac(value.timeSum, 100 * value.resolvedCount)
                          ELSE Frac(0, 1),
   activeTickets |-> value.active]

\* m put into the sorted list after every element the comparator does not
\* order behind it
RECURSIVE InsertByTotal(_, _)
InsertByTotal(sorted, m) ==
  IF sorted = <<>> THEN <<m>>
  ELSE IF Head(sorted).totalTickets - m.totalTickets < 0 THEN <<m>> \o sorted
  ELSE <<Head(sorted)>> \o InsertByTotal(Tail(sorted), m)

\* line 293: metrics.sort((a, b) => b.totalTickets - a.totalTickets); the sort
\* of an array is stable
RECURSIVE SortByTotal(_, _)
SortByTotal(sorted, metrics) ==
  IF metrics = <<>> THEN sorted
  ELSE SortByTotal(InsertByTotal(sorted, Head(metrics)), Tail(metrics))

\* the metrics left in the order of the map
calculateAgentMetricsUnsorted(ts) ==
  LET map == VisitTickets(<<>>, ts)
  IN [i \in 1..Len(map) |-> AgentMetricsOf(map[i])]

\* lines 251-294
calculateAgentMetrics(ts) ==
  LET map == VisitTickets(<<>>, ts)
  IN SortByTotal(<<>>, [i \in 1..Len(map) |-> AgentMetricsOf(map[i])])

\* ------------------------------------------------------------------ agent inputs

MaxAgentTickets == 2

\* agent identifiers as a sheet holds them
AgentIdPool == {<<"a">>, <<"b">>, <<" ", "a">>}

AgentIdLists == UNION {[1..n -> AgentIdPool] : n \in 1..2}

\* the Assign and Owner cells of a row: the agents in brackets, the agents
\* comma-separated, and no Assign with an Owner that is blank or not
AgentCells ==
  {[Assign |-> BracketCell(ids), Owner |-> Undef] : ids \in AgentIdLists}
  \cup {[Assign |-> CsvCell(ids), Owner |-> Undef] : ids \in AgentIdLists}
  \cup {[Assign |-> Undef, Owner |-> MkStr(<<" ", " ">>)],
        [Assign |-> Undef, Owner |-> MkStr(<<" ", "b", " ">>)]}

\* the assignees parseRawData gives these rows
AssigneeLists ==
  {Assignees([BaseRow EXCEPT !.Assign = c.Assign, !.Owner = c.Owner]) : c \in AgentCells}

\* what the rollup reads of a ticket besides its assignees
AgentKinds ==
  {[status |-> sOpen, resolutionTimeHours |-> 0, rating |-> 0],
   [status |-> sClosed, resolutionTimeHours |-> 100, rating |-> 40],
   [status |-> sClosed, resolutionTimeHours |-> 250, rating |-> 50]}

AgentTickets ==
  {[assignees |-> a, status |-> k.status,
    resolutionTimeHours |-> k.resolutionTimeHours, rating |-> k.rating] :
     a \in AssigneeLists, k \in AgentKinds}

\* "x@y.com"
sXAtY == <<"x", "@", "y", ".", "c", "o", "m">>

\* x@y.com on three tickets: two closed, rated 4 and 5, and one open
ThreeTicketsOfOneAgent ==
  <<[assignees |-> <<sXAtY>>, status |-> sClosed, resolutionTimeHours |-> 100, rating |-> 40],
    [assignees |-> <<sXAtY>>, status |-> sClosed, resolutionTimeHours |-> 250, rating |-> 50],
    [assignees |-> <<sXAtY>>, status |-> sOpen, resolutionTimeHours |-> 0, rating |-> 0]>>

AgentPopulations ==
  UNION {[1..n -> AgentTickets] : n \in 0..MaxAgentTickets} \cup {ThreeTicketsOfOneAgent}

\* ------------------------------------------------------------------ local storage

\* the day of the month of day z (days since 1970-01-01)
CivilDay(z) == z - MakeDay(CivilFromDays(z).year, CivilFromDays(z).month0, 1) + 1

Pad4(n) == Pad2(n \div 100) \o Pad2(n % 100)

\* the year of the date-time string format: four digits, or a sign and six
YearText(y) ==
  IF y >= 0 /\ y <= 9999 THEN Pad4(y)
  ELSE (IF y < 0 THEN <<"-">> ELSE <<"+">>) \o Pad2(Abs(y) \div 10000) \o Pad4(Abs(y) % 10000)

\* Date.prototype.toISOString of the time value t (seconds):
\* "YYYY-MM-DDTHH:mm:ss.000Z"
toISOString(t) ==
  LET z == FloorDiv(t, SecondsPerDay)
      sod == FloorMod(t, SecondsPerDay)
  IN YearText(CivilFromDays(z).year) \o <<"-">> \o Pad2(CivilFromDays(z).month0 + 1)
     \o <<"-">> \o Pad2(CivilDay(z)) \o <<"T">> \o Pad2(sod \div 3600) \o <<":">>
     \o Pad2((sod % 3600) \div 60) \o <<":">> \o Pad2(sod % 60)
     \o <<".", "0", "0", "0", "Z">>

\* what JSON.stringify writes for a date field: Date.prototype.toJSON gives
\* the ISO string of a valid date and null for an Invalid Date
DateToJson(v) ==
  IF v.k = "date" THEN (IF IsNaN(v.n) THEN Null ELSE MkStr(toISOString(v.n))) ELSE Null

\* JSON.stringify(newTickets) (App line 111), as the array JSON.parse reads back
JsonStringifyTickets(ts) ==
  [i \in 1..Len(ts) |->
     [ts[i] EXCEPT !.createdAt = DateToJson(@), !.resolvedAt = DateToJson(@)]]

\* new Date(s) for a string in the full date-time format with "Z" (every
\* engine reads it the same): the time value in seconds, NaN when s is none
ParseIsoUtc(s) ==
  LET signed == s # <<>> /\ Head(s) \in {"+", "-"}
      yl == IF signed THEN 7 ELSE 4
      r == SubSeq(s, yl + 1, Len(s))
      ys == SubSeq(s, IF signed THEN 2 ELSE 1, yl)
      shape == /\ Len(s) = yl + 20
               /\ AllDigits(ys)
               /\ r[1] = "-" /\ r[4] = "-" /\ r[7] = "T" /\ r[10] = ":" /\ r[13] = ":"
               /\ r[16] = "." /\ r[20] = "Z"
               /\ \A i \in {2, 3, 5, 6, 8, 9, 11, 12, 14, 15, 17, 18, 19} : IsDigit(r[i])
  IN IF ~shape THEN NaN
     ELSE LET y == (IF signed /\ Head(s) = "-" THEN -1 ELSE 1) * DigitsValue(ys, 0)
              m == DigitsValue(SubSeq(r, 2, 3), 0)
              d == DigitsValue(SubSeq(r, 5, 6), 0)
              h == DigitsValue(SubSeq(r, 8, 9), 0)
              mi == DigitsValue(SubSeq(r, 11, 12), 0)
              se == DigitsValue(SubSeq(r, 14, 15), 0)
          IN IF m < 1 \/ m > 12 \/ d < 1 \/ d > DaysInMonth(y, m - 1)
                \/ h > 23 \/ mi > 59 \/ se > 59
             THEN NaN
             ELSE UtcTime(y, m - 1, d, h, mi, se)

\* App lines 62-63: value ? new Date(value) : null
ReviveDate(value) ==
  IF Truthy(value) THEN MkDate(ParseIsoUtc(ToStr(value))) ELSE Null

\* App lines 60-66: JSON.parse(savedData, reviver)
Revive(rows) ==
  [i \in 1..Len(rows) |->
     [rows[i] EXCEPT !.createdAt = ReviveDate(@), !.resolvedAt = ReviveDate(@)]]

\* the item 'helpdesk_db_tickets': absent, a text JSON.parse rejects, or the
\* text of an array
DbAbsent == [kind |-> "absent", rows |-> <<>>]

DbCorrupt == [kind |-> "corrupt", rows |-> <<>>]

DbArray(rows) == [kind |-> "array", rows |-> rows]

\* ------------------------------------------------------------------ insights

\* insight === null, and a label without entry in the cache
NoInsight == [label |-> "none", version |-> 0, fallback |-> FALSE]

\* the item 'helpdesk_insights_cache' absent (or an object without entries)
EmptyCache == [r \in TimeRanges |-> NoInsight]

\* part_001 lines 149-205: what getAIInsights resolves to for a request made
\* under a label from the tickets of a data version: the payload of the model,
\* or the fallback object of the catch when the call or its parsing failed
getAIInsights(req, ok) == [label |-> req.label, version |-> req.version, fallback |-> ~ok]

\* ------------------------------------------------------------------ the page

MaxUserActions == 4

\* the views that differ in what they mount (the other two mount neither the
\* upload nor the insights panel, like the dashboard)
Views == {"DASHBOARD", "AI_INSIGHTS", "DATA_UPLOAD"}

\* the ranges picked in the selector
AppRanges == {"all", "last-30-days", "last-7-days"}

\* generateMockData(): demo tickets (100 in the code, one here), all owned by
\* 'System'
generateMockData ==
  <<[id |-> <<"1">>, subject |-> <<"I", "s", "s", "u", "e">>, status |-> sClosed,
     assignees |-> <<<<"a">>>>, customer |-> <<"u">>, priority |-> MkStr(sMedium),
     ticketType |-> sUnspecified, owner |-> <<"S", "y", "s", "t", "e", "m">>,
     rating |-> 40, createdAt |-> NativeDate, resolvedAt |-> NativeDate,
     resolutionTimeHours |-> 0]>>

NoTimers == [mock |-> 0, loaded |-> 0, range |-> 0]

\* the change of range without its timeout
RangeTimeoutMissing(t) == t

\* setTimeout(() => setIsLoading(false), 600) of handleTimeRangeChange
RangeTimeout(t) == [t EXCEPT !.range = @ + 1]

\* onDataLoaded reached whatever happened before
CallsOnDataLoadedAlways(out) == TRUE

\* whether processFile reaches onDataLoaded(tickets) (line 102)
CallsOnDataLoaded(out) == out.error = ""

\* the calls in flight of a component that is unmounted: their state setters
\* no longer reach a mounted component
Detach(calls) == {[c EXCEPT !.live = FALSE] : c \in calls}

\* a sheet cell text
Cell(s) == MkStr(s)

sCreatedOn == <<"C", "r", "e", "a", "t", "e", "d", "_", "O", "n">>

sResolvedDate == <<"r", "e", "s", "o", "l", "v", "e", "d", "-", "d", "a", "t", "e">>

sStatus == <<"S", "t", "a", "t", "u", "s">>

sTicketId == <<"T", "i", "c", "k", "e", "t", " ", "I", "D">>

\* "2024-03-15T10:30"
s20240315T1030 ==
  <<"2", "0", "2", "4", "-", "0", "3", "-", "1", "5", "T", "1", "0", ":", "3", "0">>

\* "2024-03-16"
s20240316 == <<"2", "0", "2", "4", "-", "0", "3", "-", "1", "6">>

\* a readable sheet of one closed ticket
FileClosed ==
  [ok |-> TRUE,
   rows |-> <<<< <<sTicketId, Cell(<<"7">>)>>, <<sCreatedOn, Cell(s20240315T1030)>>,
                 <<sResolvedDate, Cell(s20240316)>>, <<sStatus, Cell(sResolvedCell)>> >>>>]

\* a readable sheet of one open ticket whose creation date is "a-b-c"
FileOddDate ==
  [ok |-> TRUE,
   rows |-> <<<< <<sTicketId, Cell(<<"8">>)>>, <<sCreatedOn, Cell(<<"a", "-", "b", "-", "c">>)>>,
                 <<sStatus, Cell(sOpen)>> >>>>]

\* a file XLSX.read rejects, a sheet without rows, and the two sheets above
AppFiles == {[ok |-> FALSE, rows |-> <<>>], [ok |-> TRUE, rows |-> <<>>], FileClosed, FileOddDate}

\* the tickets an earlier visit uploaded and saved
SavedBefore == processFileResult(FileClosed, <<<<"r", "1">>>>).tickets

\* what the page may find in local storage when it starts
StartDbs ==
  {DbAbsent, DbCorrupt, DbArray(<<>>), DbArray(JsonStringifyTickets(SavedBefore))}

\* ------------------------------------------------------------------ the machine

\* no file picked yet
NoFile == [ok |-> TRUE, rows |-> <<>>]

\* the state of the pipeline, the upload and the views before anything has run
InitPipeline ==
  /\ pc = "idle"
  /\ data = <<>>
  /\ tickets = <<>>
  /\ error = FALSE
  /\ rawData = NoFile
  /\ uploadError = ""
  /\ loaded = FALSE
  /\ appTickets = <<>>
  /\ timeRange = "last-30-days"
  /\ clock = BaseNow
  /\ filteredTickets = <<>>
  /\ previousPeriodTickets = <<>>
  /\ stats = DashboardStats(<<>>, <<>>)
  /\ rollupTickets = <<>>
  /\ filteredAgents = <<>>

\* the page as its first render leaves it (App lines 25-39, the useState
\* calls of DataUpload and InsightsPanel)
InitPage ==
  /\ started = FALSE
  /\ isLoading = TRUE
  /\ view = "DASHBOARD"
  /\ timers = NoTimers
  /\ jobs = {}
  /\ uploadLoading = FALSE
  /\ insight = NoInsight
  /\ panelLoading = FALSE
  /\ requests = {}
  /\ dataVersion = 0

Init ==
  /\ tz \in TimeZones
  /\ engine \in Engines
  /\ InitPipeline
  /\ InitPage
  /\ dbTickets = DbAbsent
  /\ saved = <<>>
  /\ insightsCache = EmptyCache
  /\ budget = MaxUserActions

\* parseRawData(data): data.map stops at the first row whose callback throws
ParseRawData ==
  /\ pc = "idle"
  /\ \E rows \in Inputs :
       \E rnds \in [1..Len(rows) -> RandomIds] :
         /\ data' = rows
         /\ error' = (\E i \in 1..Len(rows) : RowThrows(rows[i]))
         /\ tickets' = IF error' THEN <<>> ELSE parseRawData(rows, rnds)
  /\ pc' = "parsed"
  /\ UNCHANGED <<tz, engine>>
  /\ UNCHANGED <<uploadVars, viewVars, agentVars, appVars>>

\* the caller drops the result; the next upload starts afresh
Discard ==
  /\ pc = "parsed"
  /\ pc' = "idle"
  /\ data' = <<>>
  /\ tickets' = <<>>
  /\ error' = FALSE
  /\ UNCHANGED <<tz, engine>>
  /\ UNCHANGED <<uploadVars, viewVars, agentVars, appVars>>

Next == ParseRawData \/ Discard

Spec == Init /\ [][Next]_vars

\* ------------------------------------------------------------------ the upload

\* DataUpload.processFile, whole: the file is read, its rows are normalized and
\* parsed, and either setError gets a message or onDataLoaded gets the tickets
processFile ==
  /\ pc = "idle"
  /\ \E file \in UploadFiles :
       \E rnds \in [1..Len(file.rows) -> RandomIds] :
         \E out \in {processFileResult(file, rnds)} :
           /\ rawData' = file
           /\ data' = out.jsonData
           /\ error' = out.threw
           /\ uploadError' = out.error
           /\ loaded' = (out.error = "")
           /\ tickets' = out.tickets
  /\ pc' = "uploaded"
  /\ UNCHANGED <<tz, engine>>
  /\ UNCHANGED <<viewVars, agentVars, appVars>>

\* the user picks another file: processFile starts with setError(null)
Reselect ==
  /\ pc = "uploaded"
  /\ pc' = "idle"
  /\ rawData' = NoFile
  /\ data' = <<>>
  /\ tickets' = <<>>
  /\ error' = FALSE
  /\ uploadError' = ""
  /\ loaded' = FALSE
  /\ UNCHANGED <<tz, engine>>
  /\ UNCHANGED <<viewVars, agentVars, appVars>>

NextUpload == processFile \/ Reselect

SpecUpload == Init /\ [][NextUpload]_vars

\* ------------------------------------------------------------------ the dashboard

\* App lines 92-99 and the useMemo of Dashboard: what a render derives from
\* the tickets, the range and the clock (one reading of the clock per view)
Render(ts, range, n) ==
  /\ filteredTickets' = filterTickets(ts, range, n)
  /\ previousPeriodTickets' = getPreviousPeriodTickets(ts, range, n)
  /\ stats' = DashboardStats(filteredTickets', previousPeriodTickets')

\* App.handleDataLoaded: the new tickets, the range "all", and the render
handleDataLoaded ==
  /\ pc = "idle"
  /\ \E p \in Populations, n \in Nows :
       /\ appTickets' = p
       /\ clock' = n
       /\ timeRange' = "all"
       /\ Render(p, "all", n)
  /\ pc' = "view"
  /\ UNCHANGED <<tz, engine, data, tickets, error>>
  /\ UNCHANGED <<uploadVars, agentVars, appVars>>

\* App.handleTimeRangeChange: the range picked, and the render
handleTimeRangeChange ==
  /\ pc = "view"
  /\ \E r \in TimeRanges \ {timeRange} :
       /\ timeRange' = r
       /\ Render(appTickets, r, clock)
  /\ UNCHANGED <<tz, engine, pc, data, tickets, error, appTickets, clock>>
  /\ UNCHANGED <<uploadVars, agentVars, appVars>>

\* App.handleClearData: the page is loaded again
handleClearData ==
  /\ pc = "view"
  /\ pc' = "idle"
  /\ appTickets' = <<>>
  /\ clock' = BaseNow
  /\ timeRange' = "last-30-days"
  /\ Render(<<>>, "last-30-days", BaseNow)
  /\ UNCHANGED <<tz, engine, data, tickets, error>>
  /\ UNCHANGED <<uploadVars, agentVars, appVars>>

NextView == handleDataLoaded \/ handleTimeRangeChange \/ handleClearData

InitView == Init /\ engine = "iso-only"

SpecView == InitView /\ [][NextView]_vars

\* ------------------------------------------------------------------ the agent rollup

\* App lines 102-104: filteredAgents = calculateAgentMetrics(filteredTickets)
Rollup ==
  /\ pc = "idle"
  /\ \E p \in AgentPopulations :
       /\ rollupTickets' = p
       /\ filteredAgents' = calculateAgentMetrics(p)
  /\ pc' = "rolled"
  /\ UNCHANGED <<tz, engine, data, tickets, error>>
  /\ UNCHANGED <<uploadVars, viewVars, appVars>>

\* the next population
Forget ==
  /\ pc = "rolled"
  /\ pc' = "idle"
  /\ rollupTickets' = <<>>
  /\ filteredAgents' = <<>>
  /\ UNCHANGED <<tz, engine, data, tickets, error>>
  /\ UNCHANGED <<uploadVars, viewVars, appVars>>

NextAgents == Rollup \/ Forget

InitAgents == Init /\ engine = "iso-only" /\ tz = 0

SpecAgents == InitAgents /\ [][NextAgents]_vars

\* ------------------------------------------------------------------ the app

\* what the app never touches
outsideApp ==
  <<tz, engine, pc, data, tickets, error, rawData, loaded, clock, filteredTickets,
    previousPeriodTickets, stats, agentVars>>

\* the state of a page that has just been loaded, before its effects run
FreshPage ==
  /\ started' = FALSE
  /\ isLoading' = TRUE
  /\ view' = "DASHBOARD"
  /\ appTickets' = <<>>
  /\ timeRange' = "last-30-days"
  /\ timers' = NoTimers
  /\ jobs' = {}
  /\ uploadError' = ""
  /\ uploadLoading' = FALSE
  /\ insight' = NoInsight
  /\ panelLoading' = FALSE
  /\ requests' = {}
  /\ dataVersion' = 0

\* a render that shows another view: the component of the old view is
\* unmounted, the one of the new view is mounted with its initial state, and
\* the effect of InsightsPanel (lines 19-33) reads the cache for the label
SwitchView(v, js, rs, cache, range) ==
  /\ view' = v
  /\ jobs' = Detach(js)
  /\ uploadError' = ""
  /\ uploadLoading' = FALSE
  /\ requests' = Detach(rs)
  /\ panelLoading' = FALSE
  /\ insight' = IF v = "AI_INSIGHTS" THEN cache[range] ELSE NoInsight

\* App lines 54-89, run once when the page has mounted
loadData ==
  /\ ~started
  /\ started' = TRUE
  /\ IF dbTickets.kind = "array" /\ Len(dbTickets.rows) > 0
     THEN /\ appTickets' = Revive(dbTickets.rows)
          /\ timeRange' = "all"
          /\ isLoading' = FALSE
          /\ timers' = timers
     ELSE /\ isLoading' = TRUE
          /\ timers' = [timers EXCEPT !.mock = @ + 1]
          /\ UNCHANGED <<appTickets, timeRange>>
  /\ UNCHANGED <<view, dbTickets, saved, insightsCache, jobs, uploadError, uploadLoading,
                 insight, panelLoading, requests, dataVersion, budget>>
  /\ UNCHANGED outsideApp

\* App lines 80-84: the fallback timer fires
mockTimer ==
  /\ timers.mock > 0
  /\ timers' = [timers EXCEPT !.mock = @ - 1]
  /\ appTickets' = generateMockData
  /\ isLoading' = FALSE
  /\ UNCHANGED <<started, view, timeRange, dbTickets, saved, insightsCache, jobs, uploadError,
                 uploadLoading, insight, panelLoading, requests, dataVersion, budget>>
  /\ UNCHANGED outsideApp

\* App lines 121 and 135: a timer of handleDataLoaded or handleTimeRangeChange
\* fires
loadingTimer ==
  /\ \E k \in {"loaded", "range"} :
       /\ timers[k] > 0
       /\ timers' = [timers EXCEPT ![k] = @ - 1]
  /\ isLoading' = FALSE
  /\ UNCHANGED <<started, view, appTickets, timeRange, dbTickets, saved, insightsCache, jobs,
                 uploadError, uploadLoading, insight, panelLoading, requests, dataVersion,
                 budget>>
  /\ UNCHANGED outsideApp

\* App line 197: a click in the sidebar
setView ==
  /\ started
  /\ budget > 0
  /\ budget' = budget - 1
  /\ \E v \in Views \ {view} : SwitchView(v, jobs, requests, insightsCache, timeRange)
  /\ UNCHANGED <<started, isLoading, appTickets, timeRange, timers, dbTickets, saved,
                 insightsCache, dataVersion>>
  /\ UNCHANGED outsideApp

\* DataUpload lines 17-22: a file is picked or dropped; processFile runs to its
\* first await
selectFile ==
  /\ started
  /\ view = "DATA_UPLOAD"
  /\ budget > 0
  /\ budget' = budget - 1
  /\ \E f \in AppFiles :
       /\ [file |-> f, live |-> TRUE] \notin jobs
       /\ jobs' = jobs \cup {[file |-> f, live |-> TRUE]}
  /\ uploadLoading' = TRUE
  /\ uploadError' = ""
  /\ UNCHANGED <<started, isLoading, view, appTickets, timeRange, timers, dbTickets, saved,
                 insightsCache, insight, panelLoading, requests, dataVersion>>
  /\ UNCHANGED outsideApp

\* App lines 106-122, called by processFile with the tickets it parsed: quota
\* says whether localStorage.setItem throws
onDataLoaded(newTickets, quota, js) ==
  /\ isLoading' = TRUE
  /\ appTickets' = newTickets
  /\ IF quota
     THEN UNCHANGED <<dbTickets, saved, insightsCache>>
     ELSE /\ dbTickets' = DbArray(JsonStringifyTickets(newTickets))
          /\ saved' = newTickets
          /\ insightsCache' = EmptyCache
  /\ timeRange' = "all"
  /\ IF view = "DASHBOARD"
     THEN /\ jobs' = js
          /\ UNCHANGED <<view, uploadError, uploadLoading, insight, panelLoading, requests>>
     ELSE SwitchView("DASHBOARD", js, requests, insightsCache', "all")
  /\ timers' = [timers EXCEPT !.loaded = @ + 1]
  /\ dataVersion' = dataVersion + 1

\* DataUpload lines 22-108: the rest of processFile, from the file read to the
\* finally
processFileDone ==
  /\ \E job \in jobs :
       \E rnds \in [1..Len(job.file.rows) -> RandomIds], quota \in BOOLEAN :
         \E out \in {processFileResult(job.file, rnds)} :
           IF CallsOnDataLoaded(out)
           THEN onDataLoaded(out.tickets, quota, jobs \ {job})
           ELSE /\ jobs' = jobs \ {job}
                /\ uploadError' = IF job.live THEN out.error ELSE uploadError
                /\ uploadLoading' = IF job.live THEN FALSE ELSE uploadLoading
                /\ UNCHANGED <<isLoading, view, appTickets, timeRange, timers, dbTickets, saved,
                               insightsCache, insight, panelLoading, requests, dataVersion>>
  /\ UNCHANGED <<started, budget>>
  /\ UNCHANGED outsideApp

\* App lines 132-136, with the effect of InsightsPanel (lines 19-33) when the
\* panel is shown
selectOnChange ==
  /\ started
  /\ budget > 0
  /\ budget' = budget - 1
  /\ \E r \in AppRanges \ {timeRange} :
       /\ timeRange' = r
       /\ insight' = IF view = "AI_INSIGHTS" THEN insightsCache[r] ELSE insight
  /\ isLoading' = TRUE
  /\ timers' = RangeTimeout(timers)
  /\ UNCHANGED <<started, view, appTickets, dbTickets, saved, insightsCache, jobs, uploadError,
                 uploadLoading, panelLoading, requests, dataVersion>>
  /\ UNCHANGED outsideApp

\* InsightsPanel lines 39-42: the button, enabled when not loading and when
\* the range holds a ticket (which ticket dates and which clock make it so is
\* left open); handleGenerate runs to its await
handleGenerate ==
  /\ started
  /\ view = "AI_INSIGHTS"
  /\ ~panelLoading
  /\ appTickets # <<>>
  /\ budget > 0
  /\ budget' = budget - 1
  /\ panelLoading' = TRUE
  /\ requests' = requests \cup {[label |-> timeRange, version |-> dataVersion, live |-> TRUE]}
  /\ UNCHANGED <<started, isLoading, view, appTickets, timeRange, timers, dbTickets, saved,
                 insightsCache, jobs, uploadError, uploadLoading, insight, dataVersion>>
  /\ UNCHANGED outsideApp

\* InsightsPanel lines 42-59: getAIInsights has resolved; ok says whether the
\* model answered, quota whether localStorage.setItem throws
getAIInsightsDone ==
  /\ \E req \in requests :
       \E ok \in BOOLEAN, quota \in BOOLEAN :
         \E result \in {getAIInsights(req, ok)} :
           /\ requests' = requests \ {req}
           /\ insight' = IF req.live THEN result ELSE insight
           /\ panelLoading' = IF req.live THEN FALSE ELSE panelLoading
           /\ insightsCache' = IF quota THEN insightsCache
                               ELSE [insightsCache EXCEPT ![req.label] = result]
  /\ UNCHANGED <<started, isLoading, view, appTickets, timeRange, timers, dbTickets, saved,
                 jobs, uploadError, uploadLoading, dataVersion, budget>>
  /\ UNCHANGED outsideApp

\* App lines 124-130, confirmed: both items removed, the page loaded again
clearOnClick ==
  /\ started
  /\ budget > 0
  /\ budget' = budget - 1
  /\ dbTickets' = DbAbsent
  /\ saved' = <<>>
  /\ insightsCache' = EmptyCache
  /\ FreshPage
  /\ UNCHANGED outsideApp

\* the page is loaded again by the user; local storage stays
reload ==
  /\ started
  /\ budget > 0
  /\ budget' = budget - 1
  /\ FreshPage
  /\ UNCHANGED <<dbTickets, saved, insightsCache>>
  /\ UNCHANGED outsideApp

NextApp ==
  \/ loadData
  \/ mockTimer
  \/ loadingTimer
  \/ setView
  \/ selectFile
  \/ processFileDone
  \/ selectOnChange
  \/ handleGenerate
  \/ getAIInsightsDone
  \/ clearOnClick
  \/ reload

InitApp ==
  /\ InitPipeline
  /\ tz = 0
  /\ engine = "iso-only"
  /\ InitPage
  /\ dbTickets \in StartDbs
  /\ saved = (IF dbTickets.kind = "array" /\ dbTickets.rows # <<>> THEN SavedBefore ELSE <<>>)
  /\ insightsCache = EmptyCache
  /\ budget = MaxUserActions

SpecApp == InitApp /\ [][NextApp]_vars

\* timers that are pending fire, and the effect of a mounted page runs
FairSpecApp ==
  SpecApp /\ WF_vars(loadData) /\ WF_vars(mockTimer) /\ WF_vars(loadingTimer)

\* ------------------------------------------------------------------ properties

Parsed == pc = "parsed"

Rows == 1..Len(tickets)

\* a date that is neither invalid nor the sentinel
ValidInstant(v) == v.k = "date" /\ ~IsNaN(v.n) /\ v.n # 0

\* C1: every ticket has resolutionTimeHours >= 0; it is 0 whenever the parsed
\* resolution date is earlier than the parsed creation date or either date is
\* the sentinel or invalid (or there is no resolution date); parseRawData
\* raised no error.
C1_ResolutionTimeNonNegative ==
  Parsed =>
    /\ ~error
    /\ Len(tickets) = Len(data)
    /\ \A i \in Rows :
         LET t == tickets[i]
         IN /\ t.resolutionTimeHours >= 0
            /\ (\/ ~ValidInstant(t.resolvedAt)
                \/ ~ValidInstant(t.createdAt)
                \/ t.resolvedAt.n < t.createdAt.n) => t.resolutionTimeHours = 0

\* C1 witness: a closed ticket whose two dates are valid, the resolution more
\* than an hour before the creation, with resolutionTimeHours 0.
C1_Witness ==
  /\ Parsed
  /\ \E i \in Rows :
       /\ ValidInstant(tickets[i].resolvedAt)
       /\ ValidInstant(tickets[i].createdAt)
       /\ tickets[i].resolvedAt.n + 3600 < tickets[i].createdAt.n
       /\ tickets[i].resolutionTimeHours = 0

\* C2, as claimed: resolvedAt is non-null only when the status is "Closed", the
\* row carries a resolution-date value and that value parses to a valid
\* instant; a cell that cannot be parsed gives null.
C2_Original ==
  Parsed =>
    \A i \in Rows :
      tickets[i].resolvedAt # Null =>
        /\ tickets[i].status = sClosed
        /\ Truthy(data[i].ResolutionBy)
        /\ ValidInstant(tickets[i].resolvedAt)

\* C2, amended: resolvedAt is non-null exactly when the status is "Closed" and
\* the row carries a (truthy) resolution-date value; it is then the date
\* parseCustomDate gives for that value, so a cell that cannot be parsed gives
\* the epoch sentinel or an Invalid Date, not null.
C2_ResolvedAtPopulated ==
  Parsed =>
    \A i \in Rows :
      /\ (tickets[i].resolvedAt # Null) <=>
           (tickets[i].status = sClosed /\ Truthy(data[i].ResolutionBy))
      /\ tickets[i].resolvedAt # Null => tickets[i].resolvedAt.k = "date"
      /\ (tickets[i].status = sClosed /\ data[i].ResolutionBy = MkStr(<<"a", "b", "c">>))
           => tickets[i].resolvedAt = Sentinel

\* C2 witness: a closed ticket whose resolution cell "abc" cannot be parsed
\* and whose resolvedAt is the sentinel.
C2_Witness ==
  /\ Parsed
  /\ \E i \in Rows :
       /\ tickets[i].status = sClosed
       /\ data[i].ResolutionBy = MkStr(<<"a", "b", "c">>)
       /\ tickets[i].resolvedAt = Sentinel

\* C3, as claimed: every ticket has rating >= 0, and rating 0 when the Rating
\* cell is absent or does not parse as a number.
C3_Original ==
  Parsed =>
    \A i \in Rows :
      /\ tickets[i].rating >= 0
      /\ (~Truthy(data[i].Rating) \/ IsNaN(ParseFloat(ToStr(data[i].Rating))))
           => tickets[i].rating = 0

\* C4, as claimed: parseCustomDate returns a valid instant or the sentinel for
\* every input, never an Invalid Date (createdAt is parseCustomDate of the
\* Creation cell, resolvedAt of the ResolutionBy cell).
C4_Original ==
  Parsed =>
    \A i \in Rows :
      /\ ~IsNaN(tickets[i].createdAt.n)
      /\ tickets[i].resolvedAt # Null => ~IsNaN(tickets[i].resolvedAt.n)

\* the Creation cell of row i is the text s
CreationIs(i, s) == data[i].Creation = MkStr(s)

\* C5, as claimed: three numeric components separated by "-", "." or "/" whose
\* first component has not four digits are always read day-month-year, whatever
\* the generic date parse makes of the text.
C5_Original ==
  Parsed =>
    \A i \in Rows :
      \A d \in DayValues, m \in MonthValues, y \in YearValues, sep \in Separators :
      CreationIs(i, DmyText(d, m, y, sep)) =>
        tickets[i].createdAt = DateCtor(y, m - 1, d, 0, 0, 0)

\* C5, amended: such a text is read day-month-year (local midnight of that
\* day) when the host's generic date parse rejects it; when the generic parse
\* accepts the text, its result is used instead.
C5_DayMonthYearAfterGenericParse ==
  Parsed =>
    \A i \in Rows :
      \A d \in DayValues, m \in MonthValues, y \in YearValues, sep \in Separators :
      CreationIs(i, DmyText(d, m, y, sep)) =>
        LET generic == DateParse(DmyText(d, m, y, sep))
        IN tickets[i].createdAt =
             IF IsNaN(generic) THEN DateCtor(y, m - 1, d, 0, 0, 0) ELSE MkDate(generic)

\* "03-04-2024"
s03042024 == DmyText(3, 4, 2024, "-")

\* C5 witness: "03-04-2024" on a host whose generic parse rejects it is
\* 3 April 2024, local midnight.
C5_Witness ==
  /\ Parsed
  /\ engine = "iso-only"
  /\ \E i \in Rows :
       /\ CreationIs(i, s03042024)
       /\ tickets[i].createdAt = MkDate(UtcTime(2024, 3, 3, 0, 0, 0) - tz * 3600)

\* C6, as claimed: the DD-MM-YYYY and the YYYY-MM-DD spelling of one calendar
\* date parse to equal instants (15 March 2024 for "15-03-2024" and
\* "2024-03-15"); "" and "-" parse to the sentinel.
C6_Original ==
  Parsed =>
    \A i \in Rows :
      /\ \A d \in DayValues, m \in MonthValues, y \in YearValues :
           d <= DaysInMonth(y, m - 1) /\ CreationIs(i, DmyText(d, m, y, "-")) =>
             tickets[i].createdAt = parseCustomDate(MkStr(YmdText(d, m, y, "-")))
      /\ (CreationIs(i, <<>>) \/ CreationIs(i, <<"-">>)) => tickets[i].createdAt = Sentinel

\* a text without leading or trailing white space
Trimmed(s) == Trim(s) = s

\* C7, as claimed: every element of every ticket's assignees is a non-empty
\* string without leading or trailing white space.
C7_Original ==
  Parsed =>
    \A i \in Rows : \A j \in 1..Len(tickets[i].assignees) :
      tickets[i].assignees[j] # <<>> /\ Trimmed(tickets[i].assignees[j])

\* a text "[...]" that JSON.parse rejects after the quote replacement
MalformedBracket(v) ==
  /\ v.k = "str"
  /\ LET str == Trim(v.s)
     IN /\ str # <<>> /\ Head(str) = "[" /\ str[Len(str)] = "]"
        /\ ~JsonParse(ReplaceAll(str, "'", "\"")).ok

\* C8, as claimed: for identifiers without quote, comma or bracket, the cell
\* "['a', 'b']" and the cell "a, b" give the same assignees in the same order;
\* a bracketed text that is not valid gives the one-element list of the whole
\* trimmed text, and no error.
C8_Original ==
  Parsed =>
    /\ ~error
    /\ \A ids \in IdLists :
         data = PairOf(ids) => tickets[1].assignees = tickets[2].assignees
    /\ \A i \in Rows :
         MalformedBracket(data[i].Assign) =>
           tickets[i].assignees = <<Trim(data[i].Assign.s)>>

\* C9, as claimed: a status equal, letter case ignored, to "Resolved",
\* "Completed" or "Verified" becomes "Closed"; every other present status
\* passes through unchanged; an absent status becomes "Open".
C9_Original ==
  Parsed =>
    \A i \in Rows :
      LET c == data[i].Status
      IN IF ~Truthy(c) THEN tickets[i].status = sOpen
         ELSE IF ToLowerCase(ToStr(c)) \in {sResolved, sCompleted, sVerified}
           THEN tickets[i].status = sClosed
         ELSE tickets[i].status = ToStr(c)

\* C9, amended: the status text is first trimmed of surrounding white space;
\* the trimmed text becomes "Closed" when it equals, letter case ignored,
\* "Resolved", "Completed" or "Verified", and otherwise passes through (trimmed,
\* else unchanged); an absent or empty status becomes "Open".
C9_StatusCollapse ==
  Parsed =>
    \A i \in Rows :
      LET c == data[i].Status
      IN IF ~Truthy(c) THEN tickets[i].status = sOpen
         ELSE IF ToLowerCase(Trim(ToStr(c))) \in {sResolved, sCompleted, sVerified}
           THEN tickets[i].status = sClosed
         ELSE tickets[i].status = Trim(ToStr(c))

\* C9 witness: the cell " Replied " gives the status "Replied".
C9_Witness ==
  /\ Parsed
  /\ \E i \in Rows :
       /\ data[i].Status = MkStr(<<" ", "R", "e", "p", "l", "i", "e", "d", " ">>)
       /\ tickets[i].status = <<"R", "e", "p", "l", "i", "e", "d">>

\* a cell that is missing or empty
Missing(v) == v \in {Undef, Null, MkStr(<<>>)}

\* C10: parseRawData returns one ticket per row, in the order of the rows, and
\* throws for no row; a missing or empty field gets its default, and
\* ticketType is never the empty string.
C10_OneTicketPerRowWithDefaults ==
  Parsed =>
    /\ ~error
    /\ Len(tickets) = Len(data)
    /\ \A i \in Rows :
         LET r == data[i]
             t == tickets[i]
         IN /\ ~Missing(r.Sr) => t.id = ToStr(r.Sr)
            /\ Missing(r.Subject) => t.subject = sNoSubject
            /\ Missing(r.Status) => t.status = sOpen
            /\ Missing(r.Customer) => t.customer = sUnknown
            /\ Missing(r.Priority) => t.priority = MkStr(sMedium)
            /\ Missing(r.TicketType) => t.ticketType = sUnspecified
            /\ t.ticketType # <<>>
            /\ Missing(r.Owner) => t.owner = <<>>
            /\ Missing(r.Rating) => t.rating = 0

\* C10 witness: a batch of several rows, one of them without Subject and one
\* without TicketType, with a ticket for each.
C10_Witness ==
  /\ Parsed
  /\ ~error
  /\ Len(data) >= 3
  /\ Len(tickets) = Len(data)
  /\ \E i \in Rows : Missing(data[i].Subject) /\ tickets[i].subject = sNoSubject
  /\ \E i \in Rows : Missing(data[i].TicketType) /\ tickets[i].ticketType = sUnspecified

\* ------------------------------------------------------------------ properties of the upload

Uploaded == pc = "uploaded"

\* C11, as claimed: an upload of a file with at least one row from which no
\* ticket is parsed ends with the error "Could not parse any tickets...", an
\* error state other than "The file appears to be empty."; and that outcome is
\* reachable: some file with at least one row ends with it.
C11_Original ==
  Uploaded =>
    /\ msgCouldNotParse # msgEmptyFile
    /\ (rawData.ok /\ Len(rawData.rows) >= 1 /\ ~error /\ ~loaded)
         => uploadError = msgCouldNotParse
    /\ \E f \in UploadFiles :
         /\ f.ok
         /\ Len(f.rows) >= 1
         /\ \E rnds \in [1..Len(f.rows) -> RandomIds] :
              processFileResult(f, rnds).error = msgCouldNotParse

\* the normalizer as the claim describes it: lower-case, then remove white
\* space, underscores and hyphens
ClaimedNormalize(h) == StripSeparators(ToLowerCase(h))

\* the synonym table has an entry for the normalized name n
HasEntry(n) == \E e \in 1..Len(columnMap) : columnMap[e][1] = n

\* the canonical field of that entry
EntryField(n) == columnMap[CHOOSE e \in 1..Len(columnMap) : columnMap[e][1] = n][2]

\* "Assigned To"
sAssignedTo == <<"A", "s", "s", "i", "g", "n", "e", "d", " ", "T", "o">>

\* "assignee"
sAssignee == <<"a", "s", "s", "i", "g", "n", "e", "e">>

\* "AGENT"
sAGENT == <<"A", "G", "E", "N", "T">>

\* C12, as claimed: a raw column name is lower-cased and stripped of white
\* space, underscores and hyphens and looked up in the synonym table; a name
\* with an entry gives its value to the entry's canonical field (the last such
\* column of a row wins), so names with one normalized form go to one field
\* ("Assigned To", "assignee" and "AGENT" to Assign); a name without an entry
\* is kept verbatim, with its value, as an extra field.
C12_Original ==
  (Uploaded /\ loaded) =>
    \A i \in 1..Len(rawData.rows) :
      LET row == rawData.rows[i]
      IN \A j \in 1..Len(row) :
           LET key == row[j][1]
               v == row[j][2]
               n == ClaimedNormalize(key)
           IN /\ key \in {sAssignedTo, sAssignee, sAGENT} => EntryField(n) = "Assign"
              /\ IF HasEntry(n)
                 THEN (\A l \in (j + 1)..Len(row) :
                         ~(HasEntry(ClaimedNormalize(row[l][1]))
                           /\ EntryField(ClaimedNormalize(row[l][1])) = EntryField(n)))
                      => data[i][EntryField(n)] = v
                 ELSE \E e \in 1..Len(data[i].extra) : data[i].extra[e] = <<key, v>>

\* ------------------------------------------------------------------ properties of the time window

Viewing == pc = "view"

\* the tickets of ts created at or after lo and at or before hi, in order
CreatedWithin(ts, lo, hi) ==
  SelectSeq(ts, LAMBDA t : DateGeq(t.createdAt, lo) /\ DateLeq(t.createdAt, hi))

\* the tickets of ts created at or after lo and before hi, in order
CreatedFromUntil(ts, lo, hi) ==
  SelectSeq(ts, LAMBDA t : DateGeq(t.createdAt, lo) /\ DateLt(t.createdAt, hi))

\* the first instant of the local calendar month k months after that of t
MonthStart(t, k) == LocalInstant(getFullYear(t), getMonth(t) + k, 1, 0, 0, 0, 0)

\* ticket t is one of ts
IsIn(t, ts) == \E i \in 1..Len(ts) : ts[i] = t

\* C13, as claimed: for last-7-days, last-30-days and this-month, filterTickets
\* returns exactly the tickets created inside the window that starts at now
\* minus 7 days, now minus 30 days, or the first instant of the current month,
\* and ends at the current time.
C13_Original ==
  Viewing =>
    /\ timeRange = "last-7-days" =>
         filteredTickets = CreatedWithin(appTickets, DaysBefore(clock, 7), clock)
    /\ timeRange = "last-30-days" =>
         filteredTickets = CreatedWithin(appTickets, DaysBefore(clock, 30), clock)
    /\ timeRange = "this-month" =>
         filteredTickets = CreatedWithin(appTickets, MonthStart(clock, 0), clock)

\* the previous period of a range of d days: no ticket in both selections, no
\* ticket created from now - 2d on in neither
PreviousDays(d) ==
  /\ previousPeriodTickets =
       CreatedFromUntil(appTickets, DaysBefore(clock, 2 * d), DaysBefore(clock, d))
  /\ \A i \in 1..Len(appTickets) :
       LET t == appTickets[i]
       IN /\ ~(IsIn(t, filteredTickets) /\ IsIn(t, previousPeriodTickets))
          /\ DateGeq(t.createdAt, DaysBefore(clock, 2 * d))
               => (IsIn(t, filteredTickets) \/ IsIn(t, previousPeriodTickets))
          /\ IsIn(t, previousPeriodTickets) =>
               /\ DateLt(t.createdAt, DaysBefore(clock, d))
               /\ DateGeq(t.createdAt, DaysBefore(clock, 2 * d))

\* C14: for last-7-days (last-30-days) getPreviousPeriodTickets returns exactly
\* the tickets with now - 14d <= createdAt < now - 7d (now - 60d <= createdAt <
\* now - 30d), in order; for the same now no ticket is in both the current and
\* the previous selection, and no ticket created from now - 14d (now - 60d) on
\* is in neither.
C14_PreviousWindowAdjacent ==
  Viewing =>
    /\ timeRange = "last-7-days" => PreviousDays(7)
    /\ timeRange = "last-30-days" => PreviousDays(30)

\* the ticket of appTickets created at instant at
TicketAt(at) == CHOOSE t \in {appTickets[i] : i \in 1..Len(appTickets)} : t.createdAt = at

HasTicketAt(at) == \E i \in 1..Len(appTickets) : appTickets[i].createdAt = at

\* C14 witness: under last-7-days, the ticket created exactly seven days ago is
\* in the current selection only, those created a millisecond earlier and
\* exactly fourteen days ago are in the previous selection only, and the one
\* created a millisecond before that is in neither.
C14_Witness ==
  /\ Viewing
  /\ timeRange = "last-7-days"
  /\ HasTicketAt(DaysBefore(clock, 7))
  /\ HasTicketAt(Before1ms(DaysBefore(clock, 7)))
  /\ HasTicketAt(DaysBefore(clock, 14))
  /\ HasTicketAt(Before1ms(DaysBefore(clock, 14)))
  /\ IsIn(TicketAt(DaysBefore(clock, 7)), filteredTickets)
  /\ ~IsIn(TicketAt(DaysBefore(clock, 7)), previousPeriodTickets)
  /\ IsIn(TicketAt(Before1ms(DaysBefore(clock, 7))), previousPeriodTickets)
  /\ ~IsIn(TicketAt(Before1ms(DaysBefore(clock, 7))), filteredTickets)
  /\ IsIn(TicketAt(DaysBefore(clock, 14)), previousPeriodTickets)
  /\ ~IsIn(TicketAt(Before1ms(DaysBefore(clock, 14))), previousPeriodTickets)
  /\ ~IsIn(TicketAt(Before1ms(DaysBefore(clock, 14))), filteredTickets)

\* C15, as claimed: filterTickets for last-month returns exactly the tickets
\* created in the previous calendar month, from its first instant up to, but
\* not including, the first instant of the current month; and
\* getPreviousPeriodTickets for this-month returns that same set for the same
\* now.
C15_Original ==
  Viewing =>
    /\ timeRange = "last-month" =>
         /\ filteredTickets =
              CreatedFromUntil(appTickets, MonthStart(clock, -1), MonthStart(clock, 0))
         /\ getPreviousPeriodTickets(appTickets, "this-month", clock) = filteredTickets
    /\ timeRange = "this-month" =>
         previousPeriodTickets =
           CreatedFromUntil(appTickets, MonthStart(clock, -1), MonthStart(clock, 0))

\* C16: for the range "all", filterTickets returns the whole collection, same
\* tickets in the same order, and getPreviousPeriodTickets returns the empty
\* collection.
C16_AllRange ==
  (Viewing /\ timeRange = "all") =>
    /\ filteredTickets = appTickets
    /\ previousPeriodTickets = <<>>

\* C16 witness: a collection of several tickets, among them one of the epoch
\* sentinel, one of an invalid date and one of tomorrow, shown whole under
\* "all" with an empty previous period.
C16_Witness ==
  /\ Viewing
  /\ timeRange = "all"
  /\ Len(appTickets) >= 3
  /\ HasTicketAt(Instant(0, 0))
  /\ HasTicketAt(InvalidInstant)
  /\ HasTicketAt(Instant(clock.s + SecondsPerDay, clock.ms))
  /\ filteredTickets = appTickets
  /\ previousPeriodTickets = <<>>

\* ------------------------------------------------------------------ properties of the statistics

\* the number of tickets of ts that are closed
CountClosed(ts) == Cardinality({i \in 1..Len(ts) : ts[i].status = sClosed})

\* the sum of a field over the closed tickets among ts[lo..hi]
RECURSIVE ClosedTotal(_, _, _, _)
ClosedTotal(ts, field, lo, hi) ==
  IF lo > hi THEN 0
  ELSE IF lo = hi THEN (IF ts[lo].status = sClosed THEN ts[lo][field] ELSE 0)
  ELSE ClosedTotal(ts, field, lo, (lo + hi) \div 2)
       + ClosedTotal(ts, field, (lo + hi) \div 2 + 1, hi)

\* st is the statistics of the population ts: the averages are fractions of
\* hours and of rating points, the ticket fields hundredths and tenths
StatsOf(st, ts) ==
  /\ st.total = Len(ts)
  /\ st.closed = CountClosed(ts)
  /\ st.open = Len(ts) - CountClosed(ts)
  /\ st.total = st.open + st.closed
  /\ st.closed = 0 => st.avgResolution.n = 0 /\ st.avgRating.n = 0
  /\ st.avgResolution.n * 100 * st.closed =
       ClosedTotal(ts, "resolutionTimeHours", 1, Len(ts)) * st.avgResolution.d
  /\ st.avgRating.n * 10 * st.closed = ClosedTotal(ts, "rating", 1, Len(ts)) * st.avgRating.d

\* C17: the statistics of a population are total = number of tickets, open =
\* number with a status other than "Closed", closed = number with status
\* "Closed" (total = open + closed), and the average resolution hours and the
\* average rating over the closed tickets only, each 0 without closed ticket;
\* for the current and for the previous population.
C17_DashboardStatistics ==
  Viewing =>
    /\ StatsOf(stats.current, filteredTickets)
    /\ StatsOf(stats.prev, previousPeriodTickets)

\* C17 witness: one open ticket carrying a rating and two closed tickets of
\* 1.00 and 2.50 hours rated 4.0 and 4.5: total 3, open 1, closed 2, average
\* resolution 7/4 hours, average rating 17/4.
C17_Witness ==
  /\ Viewing
  /\ stats.current.total = 3
  /\ stats.current.open = 1
  /\ stats.current.closed = 2
  /\ \E i \in 1..Len(filteredTickets) :
       filteredTickets[i].status # sClosed /\ filteredTickets[i].rating > 0
  /\ stats.current.avgResolution = [n |-> 7, d |-> 4]
  /\ stats.current.avgRating = [n |-> 17, d |-> 4]

\* diff is the trend of the values curr and pre (fractions): their change in
\* percent of pre, and for pre = 0 the value 0 when curr = 0 and else 100
PercentChange(diff, curr, pre) ==
  IF pre.n = 0 THEN diff = (IF curr.n = 0 THEN [n |-> 0, d |-> 1] ELSE [n |-> 100, d |-> 1])
  ELSE diff.n * pre.n * curr.d = (curr.n * pre.d - pre.n * curr.d) * 100 * diff.d

Whole(k) == [n |-> k, d |-> 1]

\* "+20.0%"
sPlus20 == <<"+", "2", "0", ".", "0", "%">>

\* "0.0%"
sZeroPercent == <<"0", ".", "0", "%">>

\* C18: the trend of total, resolution time and open count is
\* ((current - previous) / previous) * 100, and for previous = 0 it is 0 when
\* current is 0 and 100 otherwise; the rating trend is current - previous.
\* Current total 120 against previous total 100 shows "+20.0%", marked
\* unfavorable; previous 0 and current 0 shows "0.0%".
C18_TrendValues ==
  Viewing =>
    /\ PercentChange(stats.diffs.total, Whole(stats.current.total), Whole(stats.prev.total))
    /\ PercentChange(stats.diffs.open, Whole(stats.current.open), Whole(stats.prev.open))
    /\ PercentChange(stats.diffs.resolution,
                     stats.current.avgResolution, stats.prev.avgResolution)
    /\ stats.diffs.rating.n * stats.current.avgRating.d * stats.prev.avgRating.d =
         (stats.current.avgRating.n * stats.prev.avgRating.d
          - stats.prev.avgRating.n * stats.current.avgRating.d) * stats.diffs.rating.d
    /\ (stats.current.total = 120 /\ stats.prev.total = 100) =>
         /\ stats.trends.total.text = sPlus20
         /\ ~stats.trends.total.isPositive
         /\ TrendColour(stats.trends.total.isPositive) = "red"
    /\ (stats.current.total = 0 /\ stats.prev.total = 0) =>
         stats.trends.total.text = sZeroPercent

\* C18 witness: 120 tickets in the current period and 100 in the previous one,
\* shown as "+20.0%" in red.
C18_Witness ==
  /\ Viewing
  /\ stats.current.total = 120
  /\ stats.prev.total = 100
  /\ stats.trends.total.text = sPlus20
  /\ ~stats.trends.total.isPositive

\* the four trends: the change, its text and the suffix of the text
TrendsShown ==
  {[diff |-> stats.diffs.total, text |-> stats.trends.total.text, suffix |-> <<"%">>],
   [diff |-> stats.diffs.resolution, text |-> stats.trends.resolution.text,
    suffix |-> <<"%">>],
   [diff |-> stats.diffs.open, text |-> stats.trends.open.text, suffix |-> <<"%">>],
   [diff |-> stats.diffs.rating, text |-> stats.trends.rating.text, suffix |-> <<>>]}

\* body is digits, ".", one digit, and is the tenth nearest to |diff|
OneDecimalOf(body, diff) ==
  /\ Len(body) >= 3
  /\ body[Len(body) - 1] = "."
  /\ IsDigit(body[Len(body)])
  /\ AllDigits(SubSeq(body, 1, Len(body) - 2))
  /\ LET tenths == DigitsValue(SubSeq(body, 1, Len(body) - 2), 0) * 10
                   + DigitVal(body[Len(body)])
         a == IF diff.n < 0 THEN 0 - diff.n ELSE diff.n
     IN /\ 2 * (tenths * diff.d - 10 * a) <= diff.d
        /\ 2 * (10 * a - tenths * diff.d) <= diff.d

\* a text made of the sign, a number with one decimal, and the suffix
Formatted(tr, sign) ==
  /\ Len(tr.text) >= Len(sign) + Len(tr.suffix) + 3
  /\ SubSeq(tr.text, 1, Len(sign)) = sign
  /\ SubSeq(tr.text, Len(tr.text) - Len(tr.suffix) + 1, Len(tr.text)) = tr.suffix
  /\ OneDecimalOf(SubSeq(tr.text, Len(sign) + 1, Len(tr.text) - Len(tr.suffix)), tr.diff)

\* C19, as claimed: every trend text has one decimal place and begins with "+"
\* whenever the change is non-negative, a change of zero included, and with
\* "-" when it is negative.
C19_Original ==
  Viewing =>
    \A tr \in TrendsShown :
      Formatted(tr, IF tr.diff.n >= 0 THEN <<"+">> ELSE <<"-">>)

\* C19, amended: every trend text has one decimal place; it begins with "+"
\* when the change is positive and with "-" when it is negative; a change of
\* zero is shown without sign ("0.0%", "0.0").
C19_TrendFormat ==
  Viewing =>
    \A tr \in TrendsShown :
      Formatted(tr, IF tr.diff.n > 0 THEN <<"+">>
                    ELSE IF tr.diff.n < 0 THEN <<"-">> ELSE <<>>)

\* C19 witness: as many tickets now as before (and at least one): the total
\* trend is "0.0%", while another trend of the same view is negative and shown
\* with "-".
C19_Witness ==
  /\ Viewing
  /\ stats.current.total = stats.prev.total
  /\ stats.current.total > 0
  /\ stats.trends.total.text = sZeroPercent
  /\ \E tr \in TrendsShown : tr.diff.n < 0 /\ Head(tr.text) = "-"

\* a < b for fractions
FracLess(a, b) == a.n * b.d < b.n * a.d

\* a trend marked favorable (green) when the value went down, unfavorable
\* (red) when it went up, and marked by the sign of the change
LowerIsBetter(tr, diff, curr, pre) ==
  /\ tr.isPositive = (diff.n <= 0)
  /\ FracLess(curr, pre) => tr.isPositive /\ TrendColour(tr.isPositive) = "green"
  /\ FracLess(pre, curr) => ~tr.isPositive /\ TrendColour(tr.isPositive) = "red"

\* C20: for total, resolution time and open count the trend is marked
\* favorable when the value decreased and unfavorable when it increased, for
\* rating the other way round; the mark is a function of the sign of the
\* change: change <= 0 for the first three, change >= 0 for rating.
C20_TrendPolarity ==
  Viewing =>
    /\ LowerIsBetter(stats.trends.total, stats.diffs.total,
                     Whole(stats.current.total), Whole(stats.prev.total))
    /\ LowerIsBetter(stats.trends.open, stats.diffs.open,
                     Whole(stats.current.open), Whole(stats.prev.open))
    /\ LowerIsBetter(stats.trends.resolution, stats.diffs.resolution,
                     stats.current.avgResolution, stats.prev.avgResolution)
    /\ stats.trends.rating.isPositive = (stats.diffs.rating.n >= 0)
    /\ FracLess(stats.prev.avgRating, stats.current.avgRating) =>
         /\ stats.trends.rating.isPositive
         /\ TrendColour(stats.trends.rating.isPositive) = "green"
    /\ FracLess(stats.current.avgRating, stats.prev.avgRating) =>
         /\ ~stats.trends.rating.isPositive
         /\ TrendColour(stats.trends.rating.isPositive) = "red"

\* C20 witness: fewer tickets than before and a lower resolution time, both
\* marked favorable, with more open tickets and a lower average rating than
\* before, both marked unfavorable.
C20_Witness ==
  /\ Viewing
  /\ stats.current.total < stats.prev.total
  /\ stats.trends.total.isPositive
  /\ FracLess(stats.current.avgResolution, stats.prev.avgResolution)
  /\ stats.trends.resolution.isPositive
  /\ stats.current.open > stats.prev.open
  /\ ~stats.trends.open.isPositive
  /\ FracLess(stats.current.avgRating, stats.prev.avgRating)
  /\ ~stats.trends.rating.isPositive

\* ------------------------------------------------------------------ properties of the agent rollup

Rolled == pc = "rolled"

\* the ticket lists the agent: one of its assignees is the agent once trimmed
Lists(t, agent) == \E j \in 1..Len(t.assignees) : Trim(t.assignees[j]) = agent

\* the agents of a population: its distinct non-empty trimmed assignees
AgentsOf(ts) ==
  {Trim(ts[i].assignees[j]) : <<i, j>> \in
     {<<i, j>> \in (1..Len(ts)) \X (1..2) : j <= Len(ts[i].assignees)}} \ {<<>>}

\* the tickets of the population that list the agent
TicketsOf(ts, agent) == {i \in 1..Len(ts) : Lists(ts[i], agent)}

ClosedOf(ts, agent) == {i \in TicketsOf(ts, agent) : ts[i].status = sClosed}

RECURSIVE SumOver(_, _, _)
SumOver(ts, field, S) ==
  IF S = {} THEN 0
  ELSE LET i == CHOOSE i \in S : TRUE IN ts[i][field] + SumOver(ts, field, S \ {i})

\* m is the entry the claim describes for its agent
AgentEntryAsClaimed(m, ts) ==
  LET mine == TicketsOf(ts, m.email)
      closed == ClosedOf(ts, m.email)
  IN /\ m.totalTickets = Cardinality(mine)
     /\ m.activeTickets = Cardinality(mine \ closed)
     /\ m.totalTickets = m.activeTickets + Cardinality(closed)
     /\ closed = {} => m.avgRating.n = 0 /\ m.avgResolutionHours.n = 0
     /\ m.avgRating.n * 10 * Cardinality(closed) = SumOver(ts, "rating", closed) * m.avgRating.d
     /\ m.avgResolutionHours.n * 100 * Cardinality(closed) =
          SumOver(ts, "resolutionTimeHours", closed) * m.avgResolutionHours.d

\* C21, as claimed: calculateAgentMetrics returns one entry per distinct
\* non-empty trimmed assignee; totalTickets is the number of tickets that list
\* the agent, activeTickets the number of those not closed, totalTickets =
\* activeTickets + closed tickets of the agent, and the two averages are the
\* means over the agent's closed tickets (0 without any).
C21_Original ==
  Rolled =>
    /\ {filteredAgents[i].email : i \in 1..Len(filteredAgents)} = AgentsOf(rollupTickets)
    /\ Len(filteredAgents) = Cardinality(AgentsOf(rollupTickets))
    /\ \A i \in 1..Len(filteredAgents) :
         AgentEntryAsClaimed(filteredAgents[i], rollupTickets)

\* C22: the list calculateAgentMetrics returns is in descending order of
\* totalTickets, so its first element has the largest ticket count.
C22_SortedByTotal ==
  Rolled =>
    /\ \A i \in 1..Len(filteredAgents) : \A j \in i..Len(filteredAgents) :
         filteredAgents[i].totalTickets >= filteredAgents[j].totalTickets
    /\ \A i \in 1..Len(filteredAgents) :
         filteredAgents[1].totalTickets >= filteredAgents[i].totalTickets

\* C22 witness: the agent met first has fewer tickets than the agent met
\* second, and is listed after it.
C22_Witness ==
  /\ Rolled
  /\ Len(filteredAgents) = 2
  /\ filteredAgents[1].totalTickets > filteredAgents[2].totalTickets
  /\ Len(rollupTickets) > 0
  /\ Trim(rollupTickets[1].assignees[1]) = filteredAgents[2].email

\* ------------------------------------------------------------------ properties of the app

\* the tickets in memory are the ones loadData read from local storage
LoadedFromStorage ==
  started /\ dataVersion = 0 /\ dbTickets.kind = "array" /\ dbTickets.rows # <<>>

\* the loaded date field is an instant equal to the saved one
SameInstant(loadedField, savedField) ==
  /\ loadedField.k = "date"
  /\ ~IsNaN(loadedField.n)
  /\ savedField.k = "date"
  /\ loadedField.n = savedField.n

\* C23, as claimed: the tickets loaded at start-up from what an upload saved
\* have a createdAt that is an instant equal to the saved one, never a string,
\* null or missing, and a resolvedAt that is an equal instant or null.
C23_Original ==
  LoadedFromStorage =>
    /\ Len(appTickets) = Len(saved)
    /\ \A i \in 1..Len(appTickets) :
         /\ SameInstant(appTickets[i].createdAt, saved[i].createdAt)
         /\ \/ appTickets[i].resolvedAt = Null
            \/ SameInstant(appTickets[i].resolvedAt, saved[i].resolvedAt)

\* C24, as claimed: an upload that completes leaves exactly its tickets in
\* memory, and they stay until the next upload or reset; the demo-data timer
\* of the start-up never replaces them.
C24_Original ==
  [][/\ (dataVersion' = dataVersion + 1 /\ dbTickets' # dbTickets) => appTickets' = saved'
     /\ (dataVersion > 0 /\ dataVersion' = dataVersion) => appTickets' = appTickets]_vars

\* C25, as claimed: after an upload no insight computed from the tickets of
\* before the upload is left in the cache; every insight written to the cache
\* was computed from the tickets now in memory.
C25_Original ==
  [][\A r \in TimeRanges :
       (insightsCache'[r] # insightsCache[r] /\ insightsCache'[r] # NoInsight)
         => insightsCache'[r].version = dataVersion']_vars

\* C26, as claimed: whenever handleDataLoaded replaces the tickets the insights
\* cache is empty afterwards, whether or not the tickets could be saved; a
\* change of the time range removes nothing from the cache.
C26_Original ==
  [][/\ dataVersion' = dataVersion + 1 => insightsCache' = EmptyCache
     /\ (timeRange' # timeRange /\ dataVersion' = dataVersion /\ started')
          => insightsCache' = insightsCache]_vars

\* the file is one processFile fails on: unreadable, or a sheet without rows
FileFails(f) == ~f.ok \/ Len(f.rows) = 0

C28_Original ==
  (view = "AI_INSIGHTS" /\ insight # NoInsight) => insight.label = timeRange

\* C29, as claimed: no entry of the insights cache is the fallback object of a
\* failed call.
C29_Original == \A r \in TimeRanges : ~insightsCache[r].fallback

\* C30: isLoading becomes false and stays false, and it only becomes true by
\* a user action (a range change, a reload) or by an upload that completes.
C30_LoadingClears ==
  /\ <>[](~isLoading)
  /\ [][(~isLoading /\ isLoading') => (budget' < budget \/ dataVersion' > dataVersion)]_vars

\* C30 witness: after an upload and a change of range every timer has fired
\* and the indicator is off.
C30_Witness ==
  /\ started
  /\ ~isLoading
  /\ timers = NoTimers
  /\ dataVersion > 0
  /\ timeRange # "all"

====
